---- MODULE Spec2Model ----
(***************************************************************************)
(* Message intake and deduplication pipeline of cryptoainews_processor:    *)
(* src/src/services/telegramService.js (processAndStoreMessage,            *)
(* executePoll, initializeSystem and their helpers) over the shared Redis  *)
(* cache and the Telegram channel.                                         *)
(* Beside it the services started by src/server.js: the Summarizer         *)
(* (src/utils/openai.js), the price polling and the webhook notifier.      *)
(*                                                                         *)
(* Spec      : one instance of the service (it may die and be restarted),  *)
(*             stepping at the awaits of the code.                         *)
(* SpecMulti : several callers of processAndStoreMessage that share the    *)
(*             cache, interleaved at the cache operations.                 *)
(* SpecFault : one caller against a cache whose operations can reject.     *)
(* SpecTimer : a ready instance whose timer keeps invoking executePoll.    *)
(* SpecUrl   : processAndStoreMessage on one message of any shape.         *)
(* SpecE2E   : executePoll against a channel holding messages 10..12.      *)
(* SpecCycle : executePoll cycles in which the client, the cache and the   *)
(*             calls can fail; fair steps.                                 *)
(* SpecBackfill : error-free cycles against a channel longer than the      *)
(*             backfill window; fair steps.                                *)
(* SpecCrash : an instance that dies and restarts, error-free otherwise;   *)
(*             fair steps, lock keys expire.                               *)
(* SpecRetry : error-free cycles against the channel of SpecE2E; fair      *)
(*             steps, Failure Records do not expire.                       *)
(* SpecPrice : the price polling of priceService.js.                       *)
(* SpecWebhook : checkAndPostUpdates of webhookService.js beside cycles    *)
(*             and a price poll.                                           *)
(* SpecAi    : processTelegramMessage of utils/openai.js; fair steps.      *)
(* SpecServer : startServer of server.js with initializeSystem; fair steps.*)
(***************************************************************************)
EXTENDS Integers, Sequences, FiniteSets, TLC

\* ---------------------------------------------------------------- bounds
MaxMsgId == 3        \* the channel holds at most this many messages (ids 1..MaxMsgId)
NCallers == 2        \* callers that share the cache in SpecMulti
MaxCrashes == 1      \* times the instance may die in Spec
MultiMsgs == 2       \* messages the callers of SpecMulti contend for
MaxCalls == 4        \* direct calls of processAndStoreMessage in one behaviour
MaxTokens == 2       \* tokens of a message text in SpecUrl
MaxEntities == 2     \* entities of a message in SpecUrl
MaxTicks == 2        \* timer ticks that find a cycle running, in SpecTimer
MaxPolls == 3        \* price polling cycles in one behaviour

\* ------------------------------------------------- configuration values
ARTICLE_API_ID_START == 999
MIN_CONTENT_LEN == 50
BACKFILL_EXTRA == 10

Procs == 1..NCallers
NoKey == -1          \* a cache key that does not exist (GET gives null)
NoMsg == 0

\* process.env as the service finds it: the values the runs of Spec use, and
\* the defaults that apply when the variables are not set
SmallEnv == [MAX_ARTICLES |-> 2, MESSAGE_FETCH_LIMIT |-> 2,
             MODELS |-> <<"modelA", "modelB">>, API_KEYS |-> <<"key1", "key2">>,
             PRICE_HISTORY_LIMIT |-> 2, CRYPTO_SYMBOLS |-> {"BTC"},
             WEBHOOK_TARGET_URL |-> "https://hook"]
DefaultEnv == [MAX_ARTICLES |-> 25, MESSAGE_FETCH_LIMIT |-> 25,
               MODELS |-> <<"meta-llama/llama-3-70b-instruct">>, API_KEYS |-> <<"key1">>,
               PRICE_HISTORY_LIMIT |-> 1440, CRYPTO_SYMBOLS |-> {},
               WEBHOOK_TARGET_URL |-> ""]

VARIABLES
  \* the shared cache
  articles,          \* 'articles': sequence of [id, apiId]
  processed,         \* 'processed_ids': set of message ids
  failed,            \* the ids m for which a key failed:<m> exists
  locks,             \* the ids m for which a key lock:<m> exists
  lastMaxId,         \* 'lastMaxId' (NoKey when absent)
  counter,           \* 'article_api_id_counter' (NoKey when absent)
  \* the channel: message id i is channel[i]
  channel,
  \* one instance / caller
  pc,                \* position in initializeSystem / executePoll
  isPollingActive,
  ppc,               \* position in processAndStoreMessage
  pmsg,              \* msgId of the running processAndStoreMessage call
  pret,              \* value the running / last call returns
  extractedUrl,
  nextApiId,
  updatedArticles,
  queue,             \* messages the running loop still has to visit
  redisMaxId,        \* lastMaxId as read at the start of the cycle
  highest,           \* highestProcessedIdThisCycle
  initArticleIds,    \* ids of `articles` as read by initializeSystem
  telegramMaxId,     \* telegramMaxId as read by initializeSystem
  crashes,
  calls,             \* calls made so far by the callers of SpecMulti
  env,               \* process.env
  ticks,             \* executePoll invocations that found a cycle running
  \* observation (not program state)
  assigned,          \* [apiId, id] of every INCR of a call, in order
  storedApi,         \* id -> the apiIds an Article for id was stored with
  summarized,        \* did the running / last call invoke the Summarizer
  passedLock,        \* did the running call get past SET lock NX
  alreadyProcessed,  \* was msgId in processed_ids when the running call was made
  quiet,             \* since the cycle began nothing else has acted and no fetch failed
  prevCycle,         \* <<what the last cycle left>> if it was quiet, until something else acts
  fwdFailed,         \* did fetchLatestMessages of the running cycle end in its outer catch
  \* utils/openai.js: the running processTelegramMessage call
  aiPc,              \* "idle", "attempt" (inside tryModels), "returned", "threw"
  aiModel,           \* index of the model of the current attempt
  aiKey,             \* index of the API key of the current attempt
  aiTried,           \* the attempts made by the call, in order: [model, key, ended, valid]
  aiResult,          \* what the call returned
  \* priceService.js
  pricePc,           \* position in pricePollingCycle
  fetchedPrices,     \* what fetchCurrentPrices returned to the running cycle
  latestPrices,      \* 'latestPrices' (NoPrices when absent)
  priceHistory,      \* symbol -> the sorted set priceHistory:<symbol>, [value, score] entries
  now,               \* Date.now()
  polls,             \* price polls whose storePriceData transaction was executed
  \* webhookService.js
  whPc,              \* position in checkAndPostUpdates
  isWebhookCheckRunning,
  lastPostedArticleMaxId,   \* 'webhook_last_posted_article_max_id' (NoKey when absent)
  lastPostedPricesHash,     \* 'webhook_last_posted_prices_hash' (NoHash when absent)
  whArticles,        \* the ids of currentArticles of the running check, newest first
  currentPricesHash, \* currentPricesHash of the running check
  postedIds,         \* the ids of allArticles of the last POST answered with 2xx
  failedPost,        \* <<indicators of the last POST>> if it was not answered with 2xx
  \* server.js
  srvPc,             \* position in startServer
  pricePolling,      \* startPricePolling has been called
  webhookStarted,    \* startWebhookService has been called
  listening          \* app.listen has been called

\* parseInt(process.env.MAX_ARTICLES) || 25, and the same for the fetch limit
MAX_ARTICLES == env.MAX_ARTICLES
MESSAGE_FETCH_LIMIT == env.MESSAGE_FETCH_LIMIT

cacheVars == <<articles, processed, failed, locks, lastMaxId, counter>>
callVars == <<ppc, pmsg, pret, extractedUrl, nextApiId, updatedArticles, summarized, passedLock,
              alreadyProcessed>>
cycleVars == <<pc, isPollingActive, queue, redisMaxId, highest, initArticleIds, telegramMaxId>>
obsVars == <<assigned, storedApi, quiet, prevCycle>>
aiVars == <<aiPc, aiModel, aiKey, aiTried, aiResult>>
priceVars == <<pricePc, fetchedPrices, latestPrices, priceHistory, now, polls>>
whVars == <<whPc, isWebhookCheckRunning, lastPostedArticleMaxId, lastPostedPricesHash,
            whArticles, currentPricesHash, postedIds, failedPost>>
srvVars == <<srvPc, pricePolling, webhookStarted, listening>>
sideVars == <<aiVars, priceVars, whVars, srvVars>>
coreVars == <<articles, processed, failed, locks, lastMaxId, counter, channel,
          pc, isPollingActive, ppc, pmsg, pret, nextApiId, updatedArticles,
          queue, redisMaxId, highest, initArticleIds, telegramMaxId, crashes, calls,
          env, ticks, extractedUrl,
          assigned, storedApi, summarized, passedLock, alreadyProcessed, quiet,
          prevCycle, fwdFailed>>
vars == <<coreVars, sideVars>>

\* ------------------------------------------------------------- helpers
Max(a, b) == IF a >= b THEN a ELSE b
SetMax(S) == IF S = {} THEN 0 ELSE CHOOSE x \in S : \A y \in S : y <= x
SetMin(S) == CHOOSE x \in S : \A y \in S : x <= y
Ids(arts) == {arts[i].id : i \in 1..Len(arts)}
\* Take without the cut
TakeAll(s, n) == s

\* slice(0, n)
Take(s, n) == SubSeq(s, 1, IF Len(s) < n THEN Len(s) ELSE n)

\* ids of S, highest first
SortDesc(S) ==
  [k \in 1..Cardinality(S) |-> CHOOSE x \in S : Cardinality({y \in S : y > x}) = k - 1]

\* SortAsc with the comparison of the forward phase, (a, b) => b.id - a.id
SortAscReversed(S) == SortDesc(S)

\* ids of S, lowest first
SortAsc(S) ==
  [k \in 1..Cardinality(S) |-> CHOOSE x \in S : Cardinality({y \in S : y < x}) = k - 1]

\* parseInt(await redisClient.get('lastMaxId') || '0')
ReadMaxId(v) == IF v = NoKey THEN 0 ELSE v

\* ------------------------------------------------------- URL extraction
\* A message text is the sequence of its whitespace-separated tokens, an
\* entity is [type, url].  Tokens: "w" a plain word, "ftpF" an ftp URL,
\* "httpA"/"httpB" http(s) URLs, "httpBad" text the regex matches but URL()
\* rejects.
UrlTokens == {"ftpF", "httpA", "httpB"}
RegexMatches(tok) == tok \in {"httpA", "httpB", "httpBad"}
UrlParses(tok) == tok \in UrlTokens
Protocol(tok) == IF tok = "ftpF" THEN "ftp:" ELSE "http:"
isValidHttpUrl(tok) == Protocol(tok) \in {"http:", "https:"}
\* parsed.toString(): the normalised href of a URL that parses
Href(tok) == [ftpF |-> "ftpF/", httpA |-> "httpA/", httpB |-> "httpB/"][tok]
NoUrl == "null"

\* Array.prototype.find / the first match of the loop: the least index of I
FirstIndex(I) == IF I = {} THEN 0 ELSE SetMin(I)

extractValidUrl(text, entities) ==
  LET ei == FirstIndex({i \in 1..Len(entities) : entities[i].type = "textUrl"})
      entityOk == ei # 0 /\ entities[ei].url # "" /\ UrlParses(entities[ei].url)
                  /\ isValidHttpUrl(entities[ei].url)
      ti == FirstIndex({i \in 1..Len(text) :
                          RegexMatches(text[i]) /\ UrlParses(text[i])
                          /\ isValidHttpUrl(text[i])})
  IN IF entityOk THEN Href(entities[ei].url)
     ELSE IF ti # 0 THEN Href(text[ti])
     ELSE NoUrl

NoUrlMessage == [text |-> <<"w">>, entities |-> <<>>]
UrlMessage == [text |-> <<"w", "httpA">>, entities |-> <<>>]
MsgContents == {NoUrlMessage, UrlMessage}

\* ---------------------------------------------------------- Summarizer
\* What processTelegramMessage can resolve to: null, or {headline, content}.
NullResult == [isNull |-> TRUE, headline |-> FALSE, len |-> 0]
SummarizerResults ==
  {NullResult} \cup
  [isNull : {FALSE}, headline : BOOLEAN, len : {0, MIN_CONTENT_LEN - 1, MIN_CONTENT_LEN}]
\* telegramService.js:166, negated
ValidResult(r) == ~r.isNull /\ r.headline /\ r.len # 0 /\ ~(r.len < MIN_CONTENT_LEN)

\* ------------------------------------------------------------- channel
\* an id below the latest one under which the channel holds no message
Gap == [gap |-> TRUE]
ChannelIds == {i \in DOMAIN channel : channel[i] # Gap}
\* getMessages({limit, offsetId: 0, reverse: false}): the `limit` latest
LatestIds(limit) ==
  {i \in ChannelIds : Cardinality({j \in ChannelIds : j > i}) < limit}
\* getMessages({limit, offsetId, reverse: true}) as the code reads it: the
\* messages below offsetId, at most `limit` of them
OlderIds(offsetId, limit) ==
  LET below == {i \in ChannelIds : i < offsetId}
  IN {i \in below : Cardinality({j \in below : j > i}) < limit}

\* ------------------------------------------- processAndStoreMessage
\* [newArticle, ...currentArticles.filter(a => a.id !== msgId)]
\*   .sort((a, b) => b.id - a.id).slice(0, MAX_ARTICLES)
RECURSIVE InsertSorted(_, _)
\* stable insertion of article a into a list sorted newest id first
InsertSorted(a, s) ==
  IF s = <<>> THEN <<a>>
  ELSE IF a.id >= s[1].id THEN <<a>> \o s
  ELSE <<s[1]>> \o InsertSorted(a, Tail(s))

\* the list as it is, not sorted
NoSort(s) == s

RECURSIVE StableSortDesc(_)
\* Array.prototype.sort((a, b) => b.id - a.id): stable, newest id first
StableSortDesc(s) ==
  IF s = <<>> THEN <<>> ELSE InsertSorted(s[1], StableSortDesc(Tail(s)))

FilterOut(s, m) == SelectSeq(s, LAMBDA a : a.id # m)

\* the article list without the removal of the entry that has the same id
UpdatedArticlesNoFilter(newArticle, currentArticles) ==
  Take(StableSortDesc(<<newArticle>> \o currentArticles), MAX_ARTICLES)

UpdatedArticles(newArticle, currentArticles) ==
  Take(StableSortDesc(<<newArticle>> \o FilterOut(currentArticles, newArticle.id)),
       MAX_ARTICLES)

Set1(f, p, v) == [f EXCEPT ![p] = v]

\* something other than a step of the running cycle acts
Disturb == quiet' = FALSE /\ prevCycle' = <<>>

\* the call processAndStoreMessage(message) is made: its first await is SET NX
StartCall(p, m) ==
  /\ ppc' = Set1(ppc, p, "lock")
  /\ pmsg' = Set1(pmsg, p, m)
  /\ pret' = Set1(pret, p, TRUE)
  /\ summarized' = Set1(summarized, p, FALSE)
  /\ passedLock' = Set1(passedLock, p, FALSE)
  /\ alreadyProcessed' = Set1(alreadyProcessed, p, m \in processed)
  /\ UNCHANGED <<extractedUrl, nextApiId, updatedArticles>>

\* redisClient.set(lockKey, 'processing', {NX, EX: LOCK_TTL}); if (!lockAcquired) return true
PLock(p) ==
  /\ ppc[p] = "lock"
  /\ IF pmsg[p] \notin locks
     THEN /\ locks' = locks \cup {pmsg[p]}
          /\ ppc' = Set1(ppc, p, "check")
          /\ passedLock' = Set1(passedLock, p, TRUE)
          /\ pret' = pret
     ELSE /\ ppc' = Set1(ppc, p, "finally")
          /\ pret' = Set1(pret, p, TRUE)
          /\ UNCHANGED <<locks, passedLock>>
  /\ UNCHANGED <<articles, processed, failed, lastMaxId, counter, channel, env, fwdFailed, sideVars, ticks, cycleVars,
                 crashes, calls, obsVars, pmsg, extractedUrl, alreadyProcessed, nextApiId, updatedArticles, summarized>>

\* PCheck without the sIsMember test
PCheckNoDedupe(p) ==
  /\ ppc[p] = "check"
  /\ LET msg == channel[pmsg[p]]
         url == extractValidUrl(msg.text, msg.entities)
     IN /\ extractedUrl' = Set1(extractedUrl, p, url)
        /\ ppc' = Set1(ppc, p, IF url = NoUrl THEN "sAddNoUrl" ELSE "summarize")
        /\ pret' = pret
  /\ UNCHANGED <<cacheVars, channel, env, fwdFailed, sideVars, ticks, cycleVars, crashes, calls, obsVars, pmsg,
                 alreadyProcessed, nextApiId, updatedArticles, summarized, passedLock>>

\* sIsMember(PROCESSED_SET), then the synchronous URL extraction
PCheck(p) ==
  /\ ppc[p] = "check"
  /\ LET msg == channel[pmsg[p]]
         url == extractValidUrl(msg.text, msg.entities)
     IN IF pmsg[p] \in processed
        THEN /\ ppc' = Set1(ppc, p, "delEarly") /\ pret' = Set1(pret, p, TRUE)
             /\ extractedUrl' = extractedUrl
        ELSE /\ extractedUrl' = Set1(extractedUrl, p, url)
             /\ ppc' = Set1(ppc, p, IF url = NoUrl THEN "sAddNoUrl" ELSE "summarize")
             /\ pret' = pret
  /\ UNCHANGED <<cacheVars, channel, env, fwdFailed, sideVars, ticks, cycleVars, crashes, calls, obsVars, pmsg,
                 alreadyProcessed, nextApiId, updatedArticles, summarized, passedLock>>

\* PSAddNoUrl without the sAdd
PSAddNoUrlForgets(p) ==
  /\ ppc[p] = "sAddNoUrl"
  /\ ppc' = Set1(ppc, p, "delEarly")
  /\ pret' = Set1(pret, p, TRUE)
  /\ UNCHANGED <<cacheVars, channel, env, fwdFailed, sideVars, ticks, cycleVars, crashes, calls, obsVars, pmsg, extractedUrl,
                 alreadyProcessed, nextApiId, updatedArticles, summarized, passedLock>>

\* no URL: sAdd(PROCESSED_SET, msgId)
PSAddNoUrl(p) ==
  /\ ppc[p] = "sAddNoUrl"
  /\ processed' = processed \cup {pmsg[p]}
  /\ ppc' = Set1(ppc, p, "delEarly")
  /\ pret' = Set1(pret, p, TRUE)
  /\ UNCHANGED <<articles, failed, locks, lastMaxId, counter, channel, env, fwdFailed, sideVars, ticks, cycleVars,
                 crashes, calls, obsVars, pmsg, extractedUrl, alreadyProcessed, nextApiId, updatedArticles, summarized, passedLock>>

\* await processTelegramMessage(...), then the validation of its result
PSummarize(p) ==
  /\ ppc[p] = "summarize"
  /\ \E r \in SummarizerResults :
       ppc' = Set1(ppc, p, IF ValidResult(r) THEN "incr" ELSE "setFailed")
  /\ summarized' = Set1(summarized, p, TRUE)
  /\ UNCHANGED <<cacheVars, channel, env, fwdFailed, sideVars, ticks, cycleVars, crashes, calls, obsVars, pmsg, extractedUrl, alreadyProcessed, pret, nextApiId,
                 updatedArticles, passedLock>>

\* PSetFailed without the write of the Failure Record
PSetFailedForgets(p) ==
  /\ ppc[p] = "setFailed"
  /\ ppc' = Set1(ppc, p, "sAddFailed")
  /\ UNCHANGED <<cacheVars, channel, env, fwdFailed, sideVars, ticks, cycleVars, crashes, calls, obsVars, pmsg,
                 extractedUrl, alreadyProcessed, pret, nextApiId, updatedArticles,
                 summarized, passedLock>>

\* invalid result: set(`failed:${msgId}`, ..., {EX})
PSetFailed(p) ==
  /\ ppc[p] = "setFailed"
  /\ failed' = failed \cup {pmsg[p]}
  /\ ppc' = Set1(ppc, p, "sAddFailed")
  /\ UNCHANGED <<articles, processed, locks, lastMaxId, counter, channel, env, fwdFailed, sideVars, ticks, cycleVars,
                 crashes, calls, obsVars, pmsg, extractedUrl, alreadyProcessed, pret, nextApiId, updatedArticles, summarized,
                 passedLock>>

\* invalid result: sAdd(PROCESSED_SET, msgId); the call will return false
PSAddFailed(p) ==
  /\ ppc[p] = "sAddFailed"
  /\ processed' = processed \cup {pmsg[p]}
  /\ ppc' = Set1(ppc, p, "delEarly")
  /\ pret' = Set1(pret, p, FALSE)
  /\ UNCHANGED <<articles, failed, locks, lastMaxId, counter, channel, env, fwdFailed, sideVars, ticks, cycleVars,
                 crashes, calls, obsVars, pmsg, extractedUrl, alreadyProcessed, nextApiId, updatedArticles, summarized, passedLock>>

\* the del(lockKey) that precedes each early return
PDelEarly(p) ==
  /\ ppc[p] = "delEarly"
  /\ locks' = locks \ {pmsg[p]}
  /\ ppc' = Set1(ppc, p, "finally")
  /\ UNCHANGED <<articles, processed, failed, lastMaxId, counter, channel, env, fwdFailed, sideVars, ticks, cycleVars,
                 crashes, calls, obsVars, pmsg, extractedUrl, alreadyProcessed, pret, nextApiId, updatedArticles, summarized,
                 passedLock>>

\* INCR on a missing key counts from 0
Incr(c) == IF c = NoKey THEN 1 ELSE c + 1

\* nextApiId = await redisClient.incr(ARTICLE_API_ID_COUNTER_KEY)
PIncr(p) ==
  /\ ppc[p] = "incr"
  /\ counter' = Incr(counter)
  /\ nextApiId' = Set1(nextApiId, p, counter')
  /\ assigned' = Append(assigned, [apiId |-> counter', id |-> pmsg[p]])
  /\ ppc' = Set1(ppc, p, "getArticles")
  /\ UNCHANGED <<articles, processed, failed, locks, lastMaxId, channel, env, fwdFailed, sideVars, ticks, cycleVars,
                 crashes, calls, storedApi, quiet, prevCycle, pmsg, extractedUrl, alreadyProcessed, pret,
                 updatedArticles, summarized, passedLock>>

\* get('articles') and the computation of updatedArticles
PGetArticles(p) ==
  /\ ppc[p] = "getArticles"
  /\ updatedArticles' = Set1(updatedArticles, p,
        UpdatedArticles([id |-> pmsg[p], apiId |-> nextApiId[p]], articles))
  /\ ppc' = Set1(ppc, p, "exec")
  /\ UNCHANGED <<cacheVars, channel, env, fwdFailed, sideVars, ticks, cycleVars, crashes, calls, obsVars, pmsg, extractedUrl, alreadyProcessed, pret, nextApiId,
                 summarized, passedLock>>

\* PExec without multi.sAdd(PROCESSED_SET)
PExecNoSAdd(p) ==
  /\ ppc[p] = "exec"
  /\ articles' = updatedArticles[p]
  /\ failed' = failed \ {pmsg[p]}
  /\ storedApi' = [storedApi EXCEPT ![pmsg[p]] =
        IF pmsg[p] \in Ids(updatedArticles[p]) THEN @ \cup {nextApiId[p]} ELSE @]
  /\ ppc' = Set1(ppc, p, "finally")
  /\ pret' = Set1(pret, p, TRUE)
  /\ UNCHANGED <<processed, locks, lastMaxId, counter, channel, env, fwdFailed, sideVars, ticks, cycleVars, crashes, calls,
                 assigned, quiet, prevCycle, pmsg, extractedUrl, alreadyProcessed, nextApiId,
                 updatedArticles, summarized, passedLock>>

\* multi.set('articles'), multi.sAdd(PROCESSED_SET), multi.del(failed) ; exec()
PExec(p) ==
  /\ ppc[p] = "exec"
  /\ articles' = updatedArticles[p]
  /\ processed' = processed \cup {pmsg[p]}
  /\ failed' = failed \ {pmsg[p]}
  /\ storedApi' = [storedApi EXCEPT ![pmsg[p]] =
        IF pmsg[p] \in Ids(updatedArticles[p]) THEN @ \cup {nextApiId[p]} ELSE @]
  /\ ppc' = Set1(ppc, p, "finally")
  /\ pret' = Set1(pret, p, TRUE)
  /\ UNCHANGED <<locks, lastMaxId, counter, channel, env, fwdFailed, sideVars, ticks, cycleVars, crashes, calls, assigned, quiet,
                 prevCycle, pmsg, extractedUrl, alreadyProcessed,
                 nextApiId, updatedArticles, summarized, passedLock>>

\* PFinally without the del
PFinallyKeepsLock(p) ==
  /\ ppc[p] = "finally"
  /\ ppc' = Set1(ppc, p, "none")
  /\ UNCHANGED <<cacheVars, channel, env, fwdFailed, sideVars, ticks, cycleVars, crashes, calls, obsVars, pmsg,
                 extractedUrl, alreadyProcessed, pret, nextApiId, updatedArticles,
                 summarized, passedLock>>

\* finally { if (msgId) await redisClient.del(lockKey) } ; the call returns pret
PFinally(p) ==
  /\ ppc[p] = "finally"
  /\ locks' = locks \ {pmsg[p]}
  /\ ppc' = Set1(ppc, p, "none")
  /\ UNCHANGED <<articles, processed, failed, lastMaxId, counter, channel, env, fwdFailed, sideVars, ticks, cycleVars,
                 crashes, calls, obsVars, pmsg, extractedUrl, alreadyProcessed, pret, nextApiId, updatedArticles, summarized,
                 passedLock>>

\* ---- cache operations that reject (the connection is lost, a command fails)
\* the positions of the call at which a cache operation is awaited in the try
\* block
ThrowPcs == {"lock", "check", "sAddNoUrl", "setFailed", "sAddFailed", "delEarly", "incr",
             "getArticles", "exec"}

\* the awaited operation rejects without effect: control goes to the catch block
PThrow(p) ==
  /\ ppc[p] \in ThrowPcs
  /\ ppc' = Set1(ppc, p, "catchSet")
  /\ UNCHANGED <<cacheVars, channel, env, fwdFailed, sideVars, ticks, cycleVars, crashes, calls, obsVars, pmsg,
                 extractedUrl, alreadyProcessed, pret, nextApiId, updatedArticles,
                 summarized, passedLock>>

\* catch: set(`failed:${msgId}`, `Critical error: ...`, {EX})
PCatchSet(p) ==
  /\ ppc[p] = "catchSet"
  /\ failed' = failed \cup {pmsg[p]}
  /\ ppc' = Set1(ppc, p, "catchSAdd")
  /\ UNCHANGED <<articles, processed, locks, lastMaxId, counter, channel, env, fwdFailed, sideVars, ticks,
                 cycleVars, crashes, calls, obsVars, pmsg, extractedUrl, alreadyProcessed,
                 pret, nextApiId, updatedArticles, summarized, passedLock>>

\* catch: sAdd(PROCESSED_SET, msgId); return false
PCatchSAdd(p) ==
  /\ ppc[p] = "catchSAdd"
  /\ processed' = processed \cup {pmsg[p]}
  /\ pret' = Set1(pret, p, FALSE)
  /\ ppc' = Set1(ppc, p, "finally")
  /\ UNCHANGED <<articles, failed, locks, lastMaxId, counter, channel, env, fwdFailed, sideVars, ticks,
                 cycleVars, crashes, calls, obsVars, pmsg, extractedUrl, alreadyProcessed,
                 nextApiId, updatedArticles, summarized, passedLock>>

\* an operation of the catch block rejects: the finally block runs with the
\* exception pending
PCatchThrow(p) ==
  /\ ppc[p] \in {"catchSet", "catchSAdd"}
  /\ ppc' = Set1(ppc, p, "finallyThrow")
  /\ UNCHANGED <<cacheVars, channel, env, fwdFailed, sideVars, ticks, cycleVars, crashes, calls, obsVars, pmsg,
                 extractedUrl, alreadyProcessed, pret, nextApiId, updatedArticles,
                 summarized, passedLock>>

\* finally with an exception pending: del(lockKey), then the call rejects
PFinallyThrow(p) ==
  /\ ppc[p] = "finallyThrow"
  /\ locks' = locks \ {pmsg[p]}
  /\ ppc' = Set1(ppc, p, "threw")
  /\ UNCHANGED <<articles, processed, failed, lastMaxId, counter, channel, env, fwdFailed, sideVars, ticks,
                 cycleVars, crashes, calls, obsVars, pmsg, extractedUrl, alreadyProcessed,
                 pret, nextApiId, updatedArticles, summarized, passedLock>>

\* the del of the finally block rejects: the call rejects, the key stays
PFinallyFails(p) ==
  /\ ppc[p] \in {"finally", "finallyThrow"}
  /\ ppc' = Set1(ppc, p, "threw")
  /\ UNCHANGED <<cacheVars, channel, env, fwdFailed, sideVars, ticks, cycleVars, crashes, calls, obsVars, pmsg,
                 extractedUrl, alreadyProcessed, pret, nextApiId, updatedArticles,
                 summarized, passedLock>>

\* the caller's await of the call rejects
DirectThrow(p) ==
  /\ pc[p] = "call" /\ ppc[p] = "threw"
  /\ pc' = Set1(pc, p, "idle")
  /\ ppc' = Set1(ppc, p, "none")
  /\ pmsg' = Set1(pmsg, p, NoMsg)
  /\ pret' = Set1(pret, p, TRUE)
  /\ extractedUrl' = Set1(extractedUrl, p, NoUrl)
  /\ nextApiId' = Set1(nextApiId, p, 0)
  /\ updatedArticles' = Set1(updatedArticles, p, <<>>)
  /\ summarized' = Set1(summarized, p, FALSE)
  /\ passedLock' = Set1(passedLock, p, FALSE)
  /\ alreadyProcessed' = Set1(alreadyProcessed, p, FALSE)
  /\ UNCHANGED <<cacheVars, channel, env, fwdFailed, sideVars, ticks, isPollingActive, queue, redisMaxId,
                 highest, initArticleIds, telegramMaxId, crashes, calls, obsVars>>

\* a step of the running processAndStoreMessage call of p
ProcessStep(p) ==
  \/ PLock(p) \/ PCheck(p) \/ PSAddNoUrl(p) \/ PSummarize(p) \/ PSetFailed(p)
  \/ PSAddFailed(p) \/ PDelEarly(p) \/ PIncr(p) \/ PGetArticles(p) \/ PExec(p)
  \/ PFinally(p)

\* the EX of lock:<m> runs out
LockExpire(m) ==
  /\ m \in locks
  /\ locks' = locks \ {m}
  /\ UNCHANGED <<articles, processed, failed, lastMaxId, counter, channel, env, fwdFailed, sideVars, ticks, cycleVars,
                 callVars, crashes, calls, obsVars>>

\* the EX of failed:<m> runs out
FailExpire(m) ==
  /\ m \in failed
  /\ failed' = failed \ {m}
  /\ UNCHANGED <<articles, processed, locks, lastMaxId, counter, channel, env, fwdFailed, sideVars, ticks, cycleVars,
                 callVars, crashes, calls, obsVars>>

\* a caller invokes the exported processAndStoreMessage on a channel message
\* (n = 1 when the call counts towards MaxCalls, else 0)
DirectCall(p, m, n) ==
  /\ pc[p] = "idle" /\ ppc[p] = "none"
  /\ m \in ChannelIds
  /\ calls + n <= MaxCalls
  /\ calls' = calls + n
  /\ pc' = Set1(pc, p, "call")
  /\ StartCall(p, m)
  /\ Disturb
  /\ UNCHANGED <<cacheVars, channel, env, fwdFailed, sideVars, ticks, isPollingActive, queue, redisMaxId, highest,
                 initArticleIds, telegramMaxId, crashes, assigned, storedApi>>

\* the locals of a call that has returned are gone
EndCall(p) ==
  /\ pmsg' = Set1(pmsg, p, NoMsg)
  /\ pret' = Set1(pret, p, TRUE)
  /\ extractedUrl' = Set1(extractedUrl, p, NoUrl)
  /\ nextApiId' = Set1(nextApiId, p, 0)
  /\ updatedArticles' = Set1(updatedArticles, p, <<>>)
  /\ summarized' = Set1(summarized, p, FALSE)
  /\ passedLock' = Set1(passedLock, p, FALSE)
  /\ alreadyProcessed' = Set1(alreadyProcessed, p, FALSE)
  /\ ppc' = ppc

\* the caller has the result of its call
DirectReturn(p) ==
  /\ pc[p] = "call" /\ ppc[p] = "none"
  /\ pc' = Set1(pc, p, "idle")
  /\ EndCall(p)
  /\ UNCHANGED <<cacheVars, channel, env, fwdFailed, sideVars, ticks, isPollingActive, queue, redisMaxId, highest,
                 initArticleIds, telegramMaxId, crashes, calls, obsVars>>

\* ------------------------------------------------------- initializeSystem
ResetCycle(p) ==
  /\ queue' = Set1(queue, p, <<>>)
  /\ redisMaxId' = Set1(redisMaxId, p, 0)
  /\ highest' = Set1(highest, p, 0)
  /\ initArticleIds' = Set1(initArticleIds, p, {})
  /\ telegramMaxId' = Set1(telegramMaxId, p, 0)
  /\ fwdFailed' = Set1(fwdFailed, p, FALSE)

\* getCurrentTelegramMaxId: the latest message's id, 0 when the fetch fails
\* or the channel is empty
getCurrentTelegramMaxId(err) == IF err THEN 0 ELSE SetMax(ChannelIds)

\* the process is started: initializeSystem is called, the client connects
InitStart(p) ==
  /\ pc[p] = "down"
  /\ pc' = Set1(pc, p, "initExists")
  /\ Disturb
  /\ UNCHANGED <<cacheVars, channel, env, fwdFailed, sideVars, ticks, isPollingActive, queue, redisMaxId, highest,
                 initArticleIds, telegramMaxId, crashes, calls, assigned, storedApi, callVars>>

\* InitExists that takes the counter for missing
InitExistsAlwaysSet(p) ==
  /\ pc[p] = "initExists"
  /\ pc' = Set1(pc, p, "initSet")
  /\ UNCHANGED <<cacheVars, channel, env, fwdFailed, sideVars, ticks, isPollingActive, queue, redisMaxId, highest,
                 initArticleIds, telegramMaxId, crashes, calls, obsVars, callVars>>

\* counterExists = await redisClient.exists(ARTICLE_API_ID_COUNTER_KEY)
InitExists(p) ==
  /\ pc[p] = "initExists"
  /\ pc' = Set1(pc, p, IF counter # NoKey THEN "initRead" ELSE "initSet")
  /\ UNCHANGED <<cacheVars, channel, env, fwdFailed, sideVars, ticks, isPollingActive, queue, redisMaxId, highest,
                 initArticleIds, telegramMaxId, crashes, calls, obsVars, callVars>>

\* if (!counterExists) await redisClient.set(COUNTER_KEY, ARTICLE_API_ID_START)
InitSet(p) ==
  /\ pc[p] = "initSet"
  /\ counter' = ARTICLE_API_ID_START
  /\ pc' = Set1(pc, p, "initRead")
  /\ UNCHANGED <<articles, processed, failed, locks, lastMaxId, channel, env, fwdFailed, sideVars, ticks, isPollingActive,
                 queue, redisMaxId, highest, initArticleIds, telegramMaxId, crashes, calls,
                 obsVars, callVars>>

\* articles and lastMaxId are read, then getCurrentTelegramMaxId
InitRead(p) ==
  /\ pc[p] = "initRead"
  /\ initArticleIds' = Set1(initArticleIds, p, Ids(articles))
  /\ redisMaxId' = Set1(redisMaxId, p, ReadMaxId(lastMaxId))
  /\ \E err \in BOOLEAN :
       telegramMaxId' = Set1(telegramMaxId, p, getCurrentTelegramMaxId(err))
  /\ pc' = Set1(pc, p, "initFetch")
  /\ UNCHANGED <<cacheVars, channel, env, fwdFailed, sideVars, ticks, isPollingActive, queue, highest, crashes, calls, obsVars,
                 callVars>>

\* fetchLimit = Math.max(MAX_ARTICLES * 2, MESSAGE_FETCH_LIMIT)
InitFetchLimit == Max(MAX_ARTICLES * 2, MESSAGE_FETCH_LIMIT)

\* the two getMessages calls; messagesToProcess = those above lastMaxId,
\* newest first.  A failing fetch rejects initializeSystem and the process exits.
InitFetch(p) ==
  /\ pc[p] = "initFetch"
  /\ \E err \in BOOLEAN :
       IF err
       THEN /\ pc' = Set1(pc, p, "down")
            /\ ResetCycle(p)
       ELSE /\ pc' = Set1(pc, p, "initLoop")
            /\ queue' = Set1(queue, p,
                 SortDesc({i \in LatestIds(InitFetchLimit) : i > redisMaxId[p]}))
            /\ UNCHANGED <<redisMaxId, highest, initArticleIds, telegramMaxId, fwdFailed>>
  /\ UNCHANGED <<cacheVars, channel, env, sideVars, ticks, isPollingActive, crashes, calls, obsVars, callVars>>

\* one turn of the loop over messagesToProcess
InitLoop(p) ==
  /\ pc[p] = "initLoop"
  /\ IF queue[p] = <<>>
     THEN /\ pc' = Set1(pc, p, "initFinal")
          /\ UNCHANGED <<queue, callVars>>
     ELSE IF Head(queue[p]) \in initArticleIds[p] \/ Head(queue[p]) \in processed
     THEN /\ queue' = Set1(queue, p, Tail(queue[p]))
          /\ UNCHANGED <<pc, callVars>>
     ELSE /\ pc' = Set1(pc, p, "initCall")
          /\ StartCall(p, Head(queue[p]))
          /\ queue' = queue
  /\ UNCHANGED <<cacheVars, channel, env, fwdFailed, sideVars, ticks, isPollingActive, redisMaxId, highest, initArticleIds,
                 telegramMaxId, crashes, calls, obsVars>>

\* processAndStoreMessage has returned to the loop of initializeSystem
InitAfter(p) ==
  /\ pc[p] = "initCall" /\ ppc[p] = "none"
  /\ queue' = Set1(queue, p, Tail(queue[p]))
  /\ pc' = Set1(pc, p, "initLoop")
  /\ EndCall(p)
  /\ UNCHANGED <<cacheVars, channel, env, fwdFailed, sideVars, ticks, isPollingActive, redisMaxId, highest, initArticleIds,
                 telegramMaxId, crashes, calls, obsVars>>

\* finalHighestId = max(lastMaxId, telegramMaxId, highest stored id)
FinalHighestId(p) ==
  Max(Max(redisMaxId[p], telegramMaxId[p]), SetMax(Ids(articles)))

\* InitFinal that stores the channel's latest id as it read it
InitFinalUnguarded(p) ==
  /\ pc[p] = "initFinal"
  /\ lastMaxId' = telegramMaxId[p]
  /\ pc' = Set1(pc, p, "idle")
  /\ ResetCycle(p)
  /\ UNCHANGED <<articles, processed, failed, locks, counter, channel, env, sideVars, ticks, isPollingActive,
                 crashes, calls, obsVars, callVars>>

\* 5. Final state update; the system is ready
InitFinal(p) ==
  /\ pc[p] = "initFinal"
  /\ lastMaxId' = IF FinalHighestId(p) > redisMaxId[p] THEN FinalHighestId(p) ELSE lastMaxId
  /\ pc' = Set1(pc, p, "idle")
  /\ ResetCycle(p)
  /\ UNCHANGED <<articles, processed, failed, locks, counter, channel, env, sideVars, ticks, isPollingActive,
                 crashes, calls, obsVars, callVars>>

\* ------------------------------------------------------------ executePoll
\* if (isPollingActive) return; isPollingActive = true; the client is ready
PollStart(p) ==
  /\ pc[p] = "idle" /\ ~isPollingActive[p]
  /\ isPollingActive' = Set1(isPollingActive, p, TRUE)
  /\ pc' = Set1(pc, p, "pollRead")
  /\ quiet' = TRUE
  /\ UNCHANGED <<cacheVars, channel, env, fwdFailed, sideVars, ticks, queue, redisMaxId, highest, initArticleIds,
                 telegramMaxId, crashes, calls, assigned, storedApi, prevCycle, callVars>>

\* PollSkip that leaves through the finally block of the cycle
PollSkipClears(p) ==
  /\ isPollingActive[p]
  /\ ticks < MaxTicks
  /\ ticks' = ticks + 1
  /\ isPollingActive' = Set1(isPollingActive, p, FALSE)
  /\ UNCHANGED <<cacheVars, channel, env, fwdFailed, sideVars, pc, queue, redisMaxId, highest, initArticleIds,
                 telegramMaxId, crashes, calls, obsVars, callVars>>

\* executePoll is invoked (by the timer) while a cycle is running:
\* if (isPollingActive) { ...; return; }
PollSkip(p) ==
  /\ isPollingActive[p]
  /\ ticks < MaxTicks
  /\ ticks' = ticks + 1
  /\ UNCHANGED <<cacheVars, channel, env, fwdFailed, sideVars, cycleVars, crashes, calls, obsVars, callVars>>

\* oldestArticleId of the backfill phase
OldestArticleId(arts, maxId) ==
  IF Len(arts) > 0 THEN SetMin(Ids(arts))
  ELSE IF maxId > 0 THEN maxId + 1 ELSE 1

\* fetchMessagesForBackfill that returns the latest messages, whatever
\* oldestStoredId is
fetchMessagesForBackfillLatest(oldestStoredId, neededCount, err) ==
  IF err THEN {}
  ELSE LatestIds(Max(neededCount + BACKFILL_EXTRA, MESSAGE_FETCH_LIMIT))

\* fetchMessagesForBackfill: the messages below oldestStoredId, [] on error
fetchMessagesForBackfill(oldestStoredId, neededCount, err) ==
  IF err THEN {}
  ELSE {i \in OlderIds(oldestStoredId, Max(neededCount + BACKFILL_EXTRA, MESSAGE_FETCH_LIMIT)) :
          i < oldestStoredId}

\* BackfillQueue without the test of the article count
BackfillQueueAlways(arts, maxId, err) ==
  IF ~(OldestArticleId(arts, maxId) <= 1 /\ Len(arts) > 0)
  THEN SortAsc(fetchMessagesForBackfill(OldestArticleId(arts, maxId),
                                        MAX_ARTICLES - Len(arts), err))
  ELSE <<>>

\* the candidates of the backfill phase, oldest first
BackfillQueue(arts, maxId, err) ==
  IF Len(arts) < MAX_ARTICLES
     /\ ~(OldestArticleId(arts, maxId) <= 1 /\ Len(arts) > 0)
  THEN SortAsc(fetchMessagesForBackfill(OldestArticleId(arts, maxId),
                                        MAX_ARTICLES - Len(arts), err))
  ELSE <<>>

\* PollRead in which a failing backfill fetch ends the cycle
PollReadAborts(p) ==
  /\ pc[p] = "pollRead"
  /\ \E err \in BOOLEAN :
       IF err
       THEN /\ pc' = Set1(pc, p, "idle")
            /\ isPollingActive' = Set1(isPollingActive, p, FALSE)
            /\ quiet' = FALSE
            /\ UNCHANGED <<redisMaxId, queue>>
       ELSE /\ redisMaxId' = Set1(redisMaxId, p, ReadMaxId(lastMaxId))
            /\ queue' = Set1(queue, p, BackfillQueue(articles, ReadMaxId(lastMaxId), err))
            /\ quiet' = quiet
            /\ pc' = Set1(pc, p, "bfLoop")
            /\ UNCHANGED isPollingActive
  /\ UNCHANGED <<cacheVars, channel, env, fwdFailed, sideVars, ticks, highest, initArticleIds,
                 telegramMaxId, crashes, calls, assigned, storedApi,
                 prevCycle, callVars>>

\* articles and lastMaxId are read; the backfill candidates are fetched
PollRead(p) ==
  /\ pc[p] = "pollRead"
  /\ redisMaxId' = Set1(redisMaxId, p, ReadMaxId(lastMaxId))
  /\ \E err \in BOOLEAN :
       /\ queue' = Set1(queue, p, BackfillQueue(articles, ReadMaxId(lastMaxId), err))
       /\ quiet' = (quiet /\ ~err)
  /\ pc' = Set1(pc, p, "bfLoop")
  /\ UNCHANGED <<cacheVars, channel, env, fwdFailed, sideVars, ticks, isPollingActive, highest, initArticleIds,
                 telegramMaxId, crashes, calls, assigned, storedApi,
                 prevCycle, callVars>>

\* one turn of the backfill loop
BfLoop(p) ==
  /\ pc[p] = "bfLoop"
  /\ IF queue[p] = <<>>
     THEN /\ pc' = Set1(pc, p, "fwdFetch")
          /\ UNCHANGED <<queue, callVars>>
     ELSE IF \/ Head(queue[p]) \in processed
             \/ (redisMaxId[p] > 0 /\ Head(queue[p]) > redisMaxId[p])
     THEN /\ queue' = Set1(queue, p, Tail(queue[p]))
          /\ UNCHANGED <<pc, callVars>>
     ELSE /\ pc' = Set1(pc, p, "bfCall")
          /\ StartCall(p, Head(queue[p]))
          /\ queue' = queue
  /\ UNCHANGED <<cacheVars, channel, env, fwdFailed, sideVars, ticks, isPollingActive, redisMaxId, highest, initArticleIds,
                 telegramMaxId, crashes, calls, obsVars>>

\* BfAfter without the test of the article count after a call
BfAfterNoBreak(p) ==
  /\ pc[p] = "bfCall" /\ ppc[p] = "none"
  /\ queue' = Set1(queue, p, Tail(queue[p])) /\ pc' = Set1(pc, p, "bfLoop")
  /\ EndCall(p)
  /\ UNCHANGED <<cacheVars, channel, env, fwdFailed, sideVars, ticks, isPollingActive, redisMaxId, highest, initArticleIds,
                 telegramMaxId, crashes, calls, obsVars>>

\* back in the backfill loop: stop when the target count is reached
BfAfter(p) ==
  /\ pc[p] = "bfCall" /\ ppc[p] = "none"
  /\ IF Len(articles) >= MAX_ARTICLES
     THEN queue' = Set1(queue, p, <<>>) /\ pc' = Set1(pc, p, "fwdFetch")
     ELSE queue' = Set1(queue, p, Tail(queue[p])) /\ pc' = Set1(pc, p, "bfLoop")
  /\ EndCall(p)
  /\ UNCHANGED <<cacheVars, channel, env, fwdFailed, sideVars, ticks, isPollingActive, redisMaxId, highest, initArticleIds,
                 telegramMaxId, crashes, calls, obsVars>>

\* keys('failed:*') ... .filter(id => !isNaN(id) && id > redisMaxId)
failedIdsToRetry(maxId) == {i \in failed : i > maxId}

\* the list without deduplication
KeepAll(combined) == combined

\* Array.from(new Map(combined.map(msg => [msg.id, msg])).values()): one entry
\* for each id, at the place of the id's first occurrence
uniqueMessages(combined) ==
  LET firsts == {i \in 1..Len(combined) : \A j \in 1..(i - 1) : combined[j] # combined[i]}
  IN [k \in 1..Cardinality(firsts) |->
        combined[CHOOSE i \in firsts : Cardinality({j \in firsts : j < i}) = k - 1]]

\* newMessages.sort((a, b) => b.id - a.id) on a list of ids
SortMessagesDesc(s) ==
  [k \in 1..Len(s) |->
     CHOOSE x \in {s[i] : i \in 1..Len(s)} :
       /\ Cardinality({i \in 1..Len(s) : s[i] > x}) < k
       /\ k <= Cardinality({i \in 1..Len(s) : s[i] >= x})]

\* fetchLatestMessages that keeps the messages below the mark
fetchLatestMessagesBelow(maxId, latestErr, failedErr) ==
  IF latestErr THEN <<>> ELSE SortDesc({i \in LatestIds(MESSAGE_FETCH_LIMIT) : i < maxId})

\* fetchLatestMessages(client, redisMaxId): the ids of uniqueMessages, the
\* latest messages above the mark (newest first) followed by the failed ones
fetchLatestMessages(maxId, latestErr, failedErr) ==
  LET unprocessedNewer == SortDesc({i \in LatestIds(MESSAGE_FETCH_LIMIT) : i > maxId})
      failedMessages == IF failedErr THEN <<>>
                        ELSE SortAsc({i \in failedIdsToRetry(maxId) \cap ChannelIds : i > maxId})
  IN IF latestErr THEN <<>> ELSE uniqueMessages(unprocessedNewer \o failedMessages)

\* newMessages are fetched; they will be visited newest first
FwdFetch(p) ==
  /\ pc[p] = "fwdFetch"
  /\ \E latestErr \in BOOLEAN, failedErr \in BOOLEAN :
       /\ queue' = Set1(queue, p,
            SortMessagesDesc(fetchLatestMessages(redisMaxId[p], latestErr, failedErr)))
       /\ quiet' = (quiet /\ ~latestErr /\ ~failedErr)
       /\ fwdFailed' = Set1(fwdFailed, p, latestErr)
  /\ highest' = Set1(highest, p, redisMaxId[p])
  /\ pc' = Set1(pc, p, "fwdLoop")
  /\ UNCHANGED <<cacheVars, channel, env, sideVars, ticks, isPollingActive, redisMaxId, initArticleIds,
                 telegramMaxId, crashes, calls, assigned, storedApi,
                 prevCycle, callVars>>

\* one turn of the loop over newMessages
FwdLoop(p) ==
  /\ pc[p] = "fwdLoop"
  /\ IF queue[p] = <<>>
     THEN /\ pc' = Set1(pc, p, "maxId")
          /\ UNCHANGED <<queue, highest, callVars>>
     ELSE IF Head(queue[p]) <= redisMaxId[p]
     THEN /\ queue' = Set1(queue, p, Tail(queue[p]))
          /\ UNCHANGED <<pc, highest, callVars>>
     ELSE IF Head(queue[p]) \in processed
     THEN /\ queue' = Set1(queue, p, Tail(queue[p]))
          /\ highest' = Set1(highest, p, Max(highest[p], Head(queue[p])))
          /\ UNCHANGED <<pc, callVars>>
     ELSE /\ pc' = Set1(pc, p, "fwdCall")
          /\ StartCall(p, Head(queue[p]))
          /\ UNCHANGED <<queue, highest>>
  /\ UNCHANGED <<cacheVars, channel, env, fwdFailed, sideVars, ticks, isPollingActive, redisMaxId, initArticleIds,
                 telegramMaxId, crashes, calls, obsVars>>

\* back in the forward loop: if (success) highest = max(highest, message.id)
FwdAfter(p) ==
  /\ pc[p] = "fwdCall" /\ ppc[p] = "none"
  /\ highest' = Set1(highest, p,
        IF pret[p] THEN Max(highest[p], Head(queue[p])) ELSE highest[p])
  /\ queue' = Set1(queue, p, Tail(queue[p]))
  /\ pc' = Set1(pc, p, "fwdLoop")
  /\ EndCall(p)
  /\ UNCHANGED <<cacheVars, channel, env, fwdFailed, sideVars, ticks, isPollingActive, redisMaxId, initArticleIds,
                 telegramMaxId, crashes, calls, obsVars>>

\* newLastMaxId = max(highestProcessedIdThisCycle, finalTelegramMaxId, redisMaxId)
NewLastMaxId(p, err) ==
  Max(Max(highest[p], getCurrentTelegramMaxId(err)), redisMaxId[p])

\* what a cycle leaves behind
CycleResult == [articles |-> articles, processed |-> processed, lastMaxId |-> lastMaxId]

\* Update lastMaxId; finally isPollingActive = false
PollMaxId(p) ==
  /\ pc[p] = "maxId"
  /\ \E err \in BOOLEAN :
       /\ lastMaxId' = IF NewLastMaxId(p, err) > redisMaxId[p]
                       THEN NewLastMaxId(p, err) ELSE lastMaxId
       /\ prevCycle' = IF quiet /\ ~err
                       THEN <<[CycleResult EXCEPT !.lastMaxId = lastMaxId']>> ELSE <<>>
  /\ isPollingActive' = Set1(isPollingActive, p, FALSE)
  /\ pc' = Set1(pc, p, "idle")
  /\ ResetCycle(p)
  /\ UNCHANGED <<articles, processed, failed, locks, counter, channel, env, sideVars, ticks, crashes, calls, assigned,
                 storedApi, quiet, callVars>>

\* ---- a cycle that fails
\* the positions of a cycle at which an awaited operation is inside the try
\* block of executePoll and not inside a helper that catches: the reads of
\* articles and lastMaxId, sIsMember in both loops, set('lastMaxId')
PollThrowPcs == {"pollRead", "bfLoop", "fwdLoop", "maxId"}

\* getAuthorizedClient at the start of a cycle: connect() rejects or the
\* client is not authorized; its catch block ends the process,
\* process.exit(1)
ClientExit(p) ==
  /\ pc[p] = "pollRead"
  /\ pc' = Set1(pc, p, "down")
  /\ isPollingActive' = Set1(isPollingActive, p, FALSE)
  /\ ResetCycle(p)
  /\ Disturb
  /\ UNCHANGED <<cacheVars, channel, env, sideVars, ticks, crashes, calls, assigned, storedApi,
                 callVars>>

\* an awaited operation of the cycle rejects (checkAuthorization of the
\* connected client, a cache read or write, the get of articles after a
\* backfill call, a processAndStoreMessage call that rejected):
\* catch (error) { console.error(...) } finally { isPollingActive = false }
PollCatch(p) ==
  /\ \/ pc[p] \in PollThrowPcs
     \/ pc[p] = "bfCall" /\ ppc[p] \in {"none", "threw"}
     \/ pc[p] = "fwdCall" /\ ppc[p] = "threw"
  /\ pc' = Set1(pc, p, "idle")
  /\ isPollingActive' = Set1(isPollingActive, p, FALSE)
  /\ ResetCycle(p)
  /\ ppc' = Set1(ppc, p, "none")
  /\ pmsg' = Set1(pmsg, p, NoMsg)
  /\ pret' = Set1(pret, p, TRUE)
  /\ extractedUrl' = Set1(extractedUrl, p, NoUrl)
  /\ nextApiId' = Set1(nextApiId, p, 0)
  /\ updatedArticles' = Set1(updatedArticles, p, <<>>)
  /\ summarized' = Set1(summarized, p, FALSE)
  /\ passedLock' = Set1(passedLock, p, FALSE)
  /\ alreadyProcessed' = Set1(alreadyProcessed, p, FALSE)
  /\ Disturb
  /\ UNCHANGED <<cacheVars, channel, env, sideVars, ticks, crashes, calls, assigned, storedApi>>

\* ------------------------------------------------------------ environment
\* the process dies (crash, kill, process.exit); the cache keeps its keys
Crash(p) ==
  /\ pc[p] # "down"
  /\ crashes < MaxCrashes
  /\ crashes' = crashes + 1
  /\ calls' = calls
  /\ pc' = Set1(pc, p, "down")
  /\ isPollingActive' = Set1(isPollingActive, p, FALSE)
  /\ ppc' = Set1(ppc, p, "none")
  /\ pmsg' = Set1(pmsg, p, NoMsg)
  /\ pret' = Set1(pret, p, TRUE)
  /\ extractedUrl' = Set1(extractedUrl, p, NoUrl)
  /\ nextApiId' = Set1(nextApiId, p, 0)
  /\ updatedArticles' = Set1(updatedArticles, p, <<>>)
  /\ summarized' = Set1(summarized, p, FALSE)
  /\ passedLock' = Set1(passedLock, p, FALSE)
  /\ alreadyProcessed' = Set1(alreadyProcessed, p, FALSE)
  /\ ResetCycle(p)
  /\ Disturb
  /\ UNCHANGED <<cacheVars, channel, env, sideVars, ticks, assigned, storedApi>>

\* a new message appears in the channel, with the next id
Publish(c) ==
  /\ Len(channel) < MaxMsgId
  /\ channel' = Append(channel, c)
  /\ Disturb
  /\ UNCHANGED <<cacheVars, cycleVars, callVars, env, fwdFailed, sideVars, ticks, crashes, calls, assigned,
                 storedApi>>

\* the message ids of the end-to-end scenario
E2EIds == 10..12

\* ------------------------------------------------- the other services
\* a cache key of the price and webhook services that does not exist
NoPrices == <<>>
NoHash == <<>>

\* the state of utils/openai.js, priceService.js, webhookService.js and
\* server.js before any of their functions has run
SideInit ==
  /\ aiPc = "idle" /\ aiModel = 0 /\ aiKey = 0 /\ aiTried = <<>> /\ aiResult = <<>>
  /\ pricePc = "off" /\ fetchedPrices = <<>> /\ latestPrices = NoPrices
  /\ priceHistory = [s \in {"BTC"} |-> {}]
  /\ now = 0 /\ polls = 0
  /\ whPc = "idle" /\ isWebhookCheckRunning = FALSE
  /\ lastPostedArticleMaxId = NoKey /\ lastPostedPricesHash = NoHash
  /\ whArticles = <<>> /\ currentPricesHash = NoHash
  /\ postedIds = {} /\ failedPost = <<>>
  /\ srvPc = "validate" /\ pricePolling = FALSE /\ webhookStarted = FALSE
  /\ listening = FALSE

\* ------------------------------------------------------------ SpecMulti
\* Callers of processAndStoreMessage sharing a cache whose counter exists.
LocalInit ==
  /\ isPollingActive = [p \in Procs |-> FALSE]
  /\ ppc = [p \in Procs |-> "none"]
  /\ pmsg = [p \in Procs |-> NoMsg]
  /\ pret = [p \in Procs |-> TRUE]
  /\ nextApiId = [p \in Procs |-> 0]
  /\ updatedArticles = [p \in Procs |-> <<>>]
  /\ queue = [p \in Procs |-> <<>>]
  /\ redisMaxId = [p \in Procs |-> 0]
  /\ highest = [p \in Procs |-> 0]
  /\ initArticleIds = [p \in Procs |-> {}]
  /\ telegramMaxId = [p \in Procs |-> 0]
  /\ crashes = 0
  /\ calls = 0
  /\ ticks = 0
  /\ extractedUrl = [p \in Procs |-> NoUrl]
  /\ assigned = <<>>
  /\ storedApi = [m \in 1..(MaxMsgId + 1) \cup E2EIds \cup 1..(BACKFILL_EXTRA + 3) |-> {}]
  /\ summarized = [p \in Procs |-> FALSE]
  /\ passedLock = [p \in Procs |-> FALSE]
  /\ alreadyProcessed = [p \in Procs |-> FALSE]
  /\ quiet = FALSE
  /\ prevCycle = <<>>
  /\ fwdFailed = [p \in Procs |-> FALSE]
  /\ SideInit

CacheEmpty ==
  /\ articles = <<>> /\ processed = {} /\ failed = {} /\ locks = {}
  /\ lastMaxId = NoKey

InitMulti ==
  /\ CacheEmpty
  /\ counter = ARTICLE_API_ID_START
  /\ channel \in [1..MultiMsgs -> MsgContents]
  /\ env = SmallEnv
  /\ pc = [p \in Procs |-> "idle"]
  /\ LocalInit

NextMulti ==
  \/ \E p \in Procs, m \in 1..MultiMsgs : DirectCall(p, m, 1)
  \/ \E p \in Procs : ProcessStep(p)
  \/ \E p \in Procs : DirectReturn(p)
  \/ \E m \in 1..MultiMsgs : LockExpire(m)

SpecMulti == InitMulti /\ [][NextMulti]_vars

\* ----------------------------------------------------------------- Spec
\* One instance against an empty cache and an empty channel.
Init ==
  /\ CacheEmpty
  /\ counter = NoKey
  /\ channel = <<>>
  /\ env = SmallEnv
  /\ pc = [p \in Procs |-> "down"]
  /\ LocalInit

Next ==
  \/ InitStart(1) \/ InitExists(1) \/ InitSet(1) \/ InitRead(1) \/ InitFetch(1)
  \/ InitLoop(1) \/ InitAfter(1) \/ InitFinal(1)
  \/ PollStart(1) \/ PollRead(1) \/ BfLoop(1) \/ BfAfter(1) \/ FwdFetch(1)
  \/ FwdLoop(1) \/ FwdAfter(1) \/ PollMaxId(1)
  \/ \E m \in 1..MaxMsgId : DirectCall(1, m, 0)
  \/ DirectReturn(1)
  \/ ProcessStep(1)
  \/ Crash(1)
  \/ \E c \in MsgContents : Publish(c)
  \/ \E m \in 1..MaxMsgId : LockExpire(m)
  \/ \E m \in 1..MaxMsgId : FailExpire(m)

Spec == Init /\ [][Next]_vars

\* ------------------------------------------------------------ SpecFault
\* One caller of processAndStoreMessage against a cache whose operations can
\* reject.
NextFault ==
  \/ \E m \in 1..MultiMsgs : DirectCall(1, m, 1)
  \/ ProcessStep(1)
  \/ PThrow(1) \/ PCatchSet(1) \/ PCatchSAdd(1) \/ PCatchThrow(1)
  \/ PFinallyThrow(1) \/ PFinallyFails(1)
  \/ DirectReturn(1) \/ DirectThrow(1)
  \/ \E m \in 1..MultiMsgs : LockExpire(m)

SpecFault == InitMulti /\ [][NextFault]_vars

\* ------------------------------------------------------------ SpecTimer
\* A ready instance whose timer invokes executePoll again and again.
InitTimer ==
  /\ CacheEmpty
  /\ counter = ARTICLE_API_ID_START
  /\ channel \in [1..MultiMsgs -> MsgContents]
  /\ env = SmallEnv
  /\ pc = [p \in Procs |-> IF p = 1 THEN "idle" ELSE "down"]
  /\ LocalInit

NextTimer ==
  \/ PollStart(1) \/ PollSkip(1)
  \/ PollRead(1) \/ BfLoop(1) \/ BfAfter(1) \/ FwdFetch(1)
  \/ FwdLoop(1) \/ FwdAfter(1) \/ PollMaxId(1)
  \/ ProcessStep(1)

SpecTimer == InitTimer /\ [][NextTimer]_vars

\* -------------------------------------------------------------- SpecUrl
\* processAndStoreMessage on one message with any text and entities.
TextTokens == {"w", "ftpF", "httpA", "httpB", "httpBad"}
\* text-link entities with their target (missing, unparsable, ftp, http) and
\* the entity of a URL written in the text, which has no url field
EntityPool ==
  [type : {"textUrl"}, url : {"", "bad", "ftpF", "httpA", "httpB"}]
    \cup {[type |-> "url", url |-> ""]}
SeqsUpTo(S, n) == UNION {[1..k -> S] : k \in 0..n}
UrlMessages ==
  [text : SeqsUpTo(TextTokens, MaxTokens), entities : SeqsUpTo(EntityPool, MaxEntities)]

InitUrl ==
  /\ CacheEmpty
  /\ counter = ARTICLE_API_ID_START
  /\ \E msg \in UrlMessages : channel = <<msg>>
  /\ env = SmallEnv
  /\ pc = [p \in Procs |-> IF p = 1 THEN "idle" ELSE "down"]
  /\ LocalInit

NextUrl ==
  \/ DirectCall(1, 1, 0)
  \/ ProcessStep(1)
  \/ DirectReturn(1)

SpecUrl == InitUrl /\ [][NextUrl]_vars

\* -------------------------------------------------------------- SpecE2E
\* executePoll cycles of a ready instance against an empty cache and a channel
\* whose messages are 10, 11 and 12.
InitE2E ==
  /\ CacheEmpty
  /\ counter = NoKey
  /\ \E c \in [E2EIds -> MsgContents] :
       channel = [i \in 1..SetMax(E2EIds) |-> IF i \in E2EIds THEN c[i] ELSE Gap]
  /\ env \in {DefaultEnv, SmallEnv}
  /\ pc = [p \in Procs |-> IF p = 1 THEN "idle" ELSE "down"]
  /\ LocalInit

NextE2E ==
  \/ PollStart(1) \/ PollRead(1) \/ BfLoop(1) \/ BfAfter(1) \/ FwdFetch(1)
  \/ FwdLoop(1) \/ FwdAfter(1) \/ PollMaxId(1)
  \/ ProcessStep(1)

SpecE2E == InitE2E /\ [][NextE2E]_vars

\* ------------------------------------------------------------ SpecCycle
\* executePoll cycles of a ready instance in which the client, the cache and
\* processAndStoreMessage can fail. Every awaited operation settles, so a
\* step that is possible is eventually taken. Cycles start while fewer than
\* MaxCalls apiIds have been drawn.
CycleStart(p) == PollStart(p) /\ counter < ARTICLE_API_ID_START + MaxCalls

NextCycle ==
  \/ CycleStart(1) \/ ClientExit(1) \/ PollCatch(1)
  \/ PollRead(1) \/ BfLoop(1) \/ BfAfter(1) \/ FwdFetch(1)
  \/ FwdLoop(1) \/ FwdAfter(1) \/ PollMaxId(1)
  \/ ProcessStep(1)
  \/ PThrow(1) \/ PCatchSet(1) \/ PCatchSAdd(1) \/ PCatchThrow(1)
  \/ PFinallyThrow(1) \/ PFinallyFails(1)

SpecCycle == InitTimer /\ [][NextCycle]_vars /\ WF_vars(NextCycle)

\* --------------------------------------------------------- SpecBackfill
\* executePoll cycles in which no channel or cache request fails and the
\* Summarizer accepts every message it is given, against a channel of
\* BackfillMsgs messages: the oldest has a valid URL, the two latest have any
\* content, the others have no URL. The timer keeps firing, every awaited
\* operation settles.
BackfillMsgs == BACKFILL_EXTRA + 3

\* the steps that can fail, when they do not
PollReadOk(p) ==
  PollRead(p) /\ queue'[p] = BackfillQueue(articles, ReadMaxId(lastMaxId), FALSE)
FwdFetchOk(p) ==
  /\ FwdFetch(p)
  /\ queue'[p] = SortMessagesDesc(fetchLatestMessages(redisMaxId[p], FALSE, FALSE))
  /\ ~fwdFailed'[p]
PollMaxIdOk(p) ==
  /\ PollMaxId(p)
  /\ lastMaxId' = IF NewLastMaxId(p, FALSE) > redisMaxId[p]
                  THEN NewLastMaxId(p, FALSE) ELSE lastMaxId
PSummarizeOk(p) == PSummarize(p) /\ ppc'[p] = "incr"

InitBackfill ==
  /\ CacheEmpty
  /\ counter = ARTICLE_API_ID_START
  /\ \E c \in [{BackfillMsgs - 1, BackfillMsgs} -> MsgContents] :
       channel = [i \in 1..BackfillMsgs |->
                    IF i = 1 THEN UrlMessage
                    ELSE IF i >= BackfillMsgs - 1 THEN c[i] ELSE NoUrlMessage]
  /\ env = SmallEnv
  /\ pc = [p \in Procs |-> IF p = 1 THEN "idle" ELSE "down"]
  /\ LocalInit

NextBackfill ==
  \/ PollStart(1) \/ PollReadOk(1) \/ BfLoop(1) \/ BfAfter(1) \/ FwdFetchOk(1)
  \/ FwdLoop(1) \/ FwdAfter(1) \/ PollMaxIdOk(1)
  \/ PLock(1) \/ PCheck(1) \/ PSAddNoUrl(1) \/ PSummarizeOk(1) \/ PDelEarly(1)
  \/ PIncr(1) \/ PGetArticles(1) \/ PExec(1) \/ PFinally(1)

SpecBackfill == InitBackfill /\ [][NextBackfill]_vars /\ WF_vars(NextBackfill)

\* ------------------------------------------------------------ SpecCrash
\* One instance that can die and is started again, against a channel of
\* MultiMsgs messages to which messages are published; no channel or cache request fails and the Summarizer
\* accepts what it is given. Every awaited operation settles, the process
\* manager restarts the instance, the timer keeps firing, and a lock key runs
\* out.
InitReadOk(p) == InitRead(p) /\ telegramMaxId'[p] = SetMax(ChannelIds)
InitFetchOk(p) == InitFetch(p) /\ pc'[p] = "initLoop"

InitCrash ==
  /\ CacheEmpty
  /\ counter = NoKey
  /\ channel \in [1..MultiMsgs -> MsgContents]
  /\ env = SmallEnv
  /\ pc = [p \in Procs |-> "down"]
  /\ LocalInit

NextCrash ==
  \/ InitStart(1) \/ InitExists(1) \/ InitSet(1) \/ InitReadOk(1) \/ InitFetchOk(1)
  \/ InitLoop(1) \/ InitAfter(1) \/ InitFinal(1)
  \/ PollStart(1) \/ PollReadOk(1) \/ BfLoop(1) \/ BfAfter(1) \/ FwdFetchOk(1)
  \/ FwdLoop(1) \/ FwdAfter(1) \/ PollMaxIdOk(1)
  \/ PLock(1) \/ PCheck(1) \/ PSAddNoUrl(1) \/ PSummarizeOk(1) \/ PDelEarly(1)
  \/ PIncr(1) \/ PGetArticles(1) \/ PExec(1) \/ PFinally(1)
  \/ Crash(1)
  \/ \E c \in MsgContents : Publish(c)
  \/ \E m \in 1..MaxMsgId : LockExpire(m)

SpecCrash ==
  /\ InitCrash /\ [][NextCrash]_vars
  /\ WF_vars(NextCrash)
  /\ \A m \in 1..MaxMsgId : WF_vars(LockExpire(m))

\* ------------------------------------------------------------ SpecRetry
\* executePoll cycles of a ready instance against the channel of SpecE2E, in
\* which no channel or cache request fails, the Summarizer may accept or
\* reject, and Failure Records do not
\* expire. The timer keeps firing, every awaited operation settles.
NextRetry ==
  \/ PollStart(1) \/ PollReadOk(1) \/ BfLoop(1) \/ BfAfter(1) \/ FwdFetchOk(1)
  \/ FwdLoop(1) \/ FwdAfter(1) \/ PollMaxIdOk(1)
  \/ ProcessStep(1)

SpecRetry == InitE2E /\ [][NextRetry]_vars /\ WF_vars(NextRetry)

\* ------------------------------------------------------------ SpecPrice
\* src/src/services/priceService.js: the price polling of a started service.

\* parseInt(process.env.PRICE_HISTORY_LIMIT) || 1440
PRICE_HISTORY_LIMIT == env.PRICE_HISTORY_LIMIT
\* the keys of SYMBOL_MAP
Symbols == env.CRYPTO_SYMBOLS

\* response.data[apiId]?.usd || 0
PriceValues == {0, 100, 101}

\* initialPrices of initializePrices (they carry no timestamp)
InitialPrices == [s \in {"BTC", "ETH"} |-> [price |-> IF s = "BTC" THEN 50000 ELSE 3000]]

\* f ranks above e in a sorted set: by score, then by member
RanksAbove(f, e) == f.score > e.score \/ (f.score = e.score /\ f.value > e.value)

\* zAdd(key, {score, value}): the member `value` is in the set once, with the
\* score of the last zAdd
ZAdd(z, value, score) ==
  {e \in z : e.value # value} \cup {[value |-> value, score |-> score]}

\* zRemRangeByRank(key, 0, -limit - 1): all but the `limit` entries of
\* highest rank are removed
ZRemRangeByRank(z, limit) ==
  {e \in z : Cardinality({f \in z : RanksAbove(f, e)}) < limit}

\* startPricePolling: initializePrices sets the default prices if the key
\* is absent (a cache error is logged and ignored), then polling starts
PriceInit ==
  /\ pricePc = "off"
  /\ \E err \in BOOLEAN :
       latestPrices' = IF latestPrices = NoPrices /\ ~err THEN InitialPrices
                       ELSE latestPrices
  /\ pricePc' = "idle"
  /\ UNCHANGED <<coreVars, aiVars, whVars, srvVars, fetchedPrices, priceHistory, now, polls>>

\* pricePollingCycle is invoked, at once and then by the interval timer
PriceTick ==
  /\ pricePc = "idle"
  /\ now < MaxPolls
  /\ now' = now + 1
  /\ pricePc' = "fetch"
  /\ UNCHANGED <<coreVars, aiVars, whVars, srvVars, fetchedPrices, latestPrices, priceHistory,
                 polls>>

\* fetchCurrentPrices: null without symbols or when every API failed, else
\* one {symbol, price, timestamp} for each symbol
PriceFetch ==
  /\ pricePc = "fetch"
  /\ \E failed_ \in BOOLEAN, v \in [Symbols -> PriceValues] :
       IF Symbols = {} \/ failed_
       THEN pricePc' = "idle" /\ fetchedPrices' = <<>>
       ELSE /\ pricePc' = "store"
            /\ fetchedPrices' = [s \in Symbols |-> [price |-> v[s], timestamp |-> now]]
  /\ UNCHANGED <<coreVars, aiVars, whVars, srvVars, latestPrices, priceHistory, now, polls>>

\* storePriceData: one MULTI with set('latestPrices'), and zAdd and
\* zRemRangeByRank for each symbol; a rejected exec is logged
PriceStore ==
  /\ pricePc = "store"
  /\ \E err \in BOOLEAN :
       IF err
       THEN UNCHANGED <<latestPrices, priceHistory, polls>>
       ELSE /\ latestPrices' = fetchedPrices
            /\ priceHistory' =
                 [s \in DOMAIN priceHistory |->
                    IF s \in DOMAIN fetchedPrices
                    THEN ZRemRangeByRank(
                           ZAdd(priceHistory[s], fetchedPrices[s].price,
                                fetchedPrices[s].timestamp),
                           PRICE_HISTORY_LIMIT)
                    ELSE priceHistory[s]]
            /\ polls' = polls + 1
  /\ pricePc' = "idle"
  /\ fetchedPrices' = <<>>
  /\ UNCHANGED <<coreVars, aiVars, whVars, srvVars, now>>

InitPrice ==
  /\ InitTimer
  /\ channel = [i \in 1..MultiMsgs |-> UrlMessage]

NextPrice == PriceInit \/ PriceTick \/ PriceFetch \/ PriceStore

SpecPrice == InitPrice /\ [][NextPrice]_vars

\* ---------------------------------------------------------- SpecWebhook
\* src/src/services/webhookService.js: checkAndPostUpdates of a started
\* service, beside executePoll cycles and the price polling.

WEBHOOK_TARGET_URL == env.WEBHOOK_TARGET_URL

\* crypto.createHash('md5').update(JSON.stringify(data)).digest('hex')
calculateHash(data) == <<"md5", data>>

\* currentArticles.length > 0 ? currentArticles[0].id : 0
currentArticleMaxId == IF Len(whArticles) > 0 THEN whArticles[1] ELSE 0

\* how axios.post can end: a 2xx answer, an answer with another status,
\* no answer (network error, WEBHOOK_POST_TIMEOUT_MS)
PostOutcomes == {"2xx", "non2xx", "noResponse"}

\* finally { isWebhookCheckRunning = false }; the locals are gone
WhFinish ==
  /\ whPc' = "idle"
  /\ isWebhookCheckRunning' = FALSE
  /\ whArticles' = <<>>
  /\ currentPricesHash' = NoHash

\* the interval timer invokes checkAndPostUpdates; it returns at once while a
\* check is running or without a target URL
WhStart ==
  /\ whPc = "idle"
  /\ ~isWebhookCheckRunning
  /\ WEBHOOK_TARGET_URL # ""
  /\ isWebhookCheckRunning' = TRUE
  /\ whPc' = "read"
  /\ UNCHANGED <<coreVars, aiVars, priceVars, srvVars, lastPostedArticleMaxId,
                 lastPostedPricesHash, whArticles, currentPricesHash, postedIds, failedPost>>

\* 1. and 2.: articles and latestPrices are read, the current indicators computed
WhRead ==
  /\ whPc = "read"
  /\ whArticles' = [i \in 1..Len(articles) |-> articles[i].id]
  /\ currentPricesHash' = calculateHash(latestPrices)
  /\ whPc' = "compare"
  /\ UNCHANGED <<coreVars, aiVars, priceVars, srvVars, isWebhookCheckRunning,
                 lastPostedArticleMaxId, lastPostedPricesHash, postedIds, failedPost>>

\* 3. and 4.: the last posted indicators are read and compared
WhCompare ==
  /\ whPc = "compare"
  /\ LET articlesChanged == currentArticleMaxId > ReadMaxId(lastPostedArticleMaxId)
         pricesChanged == currentPricesHash # lastPostedPricesHash
     IN IF articlesChanged \/ pricesChanged
        THEN /\ whPc' = "post"
             /\ UNCHANGED <<isWebhookCheckRunning, whArticles, currentPricesHash>>
        ELSE WhFinish
  /\ UNCHANGED <<coreVars, aiVars, priceVars, srvVars, lastPostedArticleMaxId,
                 lastPostedPricesHash, postedIds, failedPost>>

\* WhPost that takes every answer for a success
WhPostAnyStatus ==
  /\ whPc = "post"
  /\ \E outcome \in PostOutcomes :
       /\ whPc' = "exec"
       /\ postedIds' = IF outcome = "2xx" THEN {whArticles[i] : i \in 1..Len(whArticles)}
                       ELSE postedIds
       /\ failedPost' = IF outcome = "2xx" THEN <<>>
                        ELSE <<[maxId |-> currentArticleMaxId, hash |-> currentPricesHash]>>
       /\ UNCHANGED <<isWebhookCheckRunning, whArticles, currentPricesHash>>
  /\ UNCHANGED <<coreVars, aiVars, priceVars, srvVars, lastPostedArticleMaxId,
                 lastPostedPricesHash>>

\* 5. axios.post(WEBHOOK_TARGET_URL, payload, {timeout}); only a 2xx answer
\* leads on to the update of the indicators
WhPost ==
  /\ whPc = "post"
  /\ \E outcome \in PostOutcomes :
       IF outcome = "2xx"
       THEN /\ whPc' = "exec"
            /\ postedIds' = {whArticles[i] : i \in 1..Len(whArticles)}
            /\ failedPost' = <<>>
            /\ UNCHANGED <<isWebhookCheckRunning, whArticles, currentPricesHash>>
       ELSE /\ failedPost' = <<[maxId |-> currentArticleMaxId, hash |-> currentPricesHash]>>
            /\ postedIds' = postedIds
            /\ WhFinish
  /\ UNCHANGED <<coreVars, aiVars, priceVars, srvVars, lastPostedArticleMaxId,
                 lastPostedPricesHash>>

\* 6. MULTI: set(LAST_POSTED_ARTICLE_MAX_ID_KEY), set(LAST_POSTED_PRICES_HASH_KEY)
WhExec ==
  /\ whPc = "exec"
  /\ lastPostedArticleMaxId' = currentArticleMaxId
  /\ lastPostedPricesHash' = currentPricesHash
  /\ WhFinish
  /\ UNCHANGED <<coreVars, aiVars, priceVars, srvVars, postedIds, failedPost>>

\* a cache operation of the check rejects: catch (error) { console.error },
\* then the finally block
WhCatch ==
  /\ whPc \in {"read", "compare", "exec"}
  /\ whPc' = "catch"
  /\ UNCHANGED <<coreVars, aiVars, priceVars, srvVars, isWebhookCheckRunning,
                 lastPostedArticleMaxId, lastPostedPricesHash, whArticles, currentPricesHash,
                 postedIds, failedPost>>

WhFinally ==
  /\ whPc = "catch"
  /\ WhFinish
  /\ UNCHANGED <<coreVars, aiVars, priceVars, srvVars, lastPostedArticleMaxId,
                 lastPostedPricesHash, postedIds, failedPost>>

\* the first price polling cycle (the only one beside the webhook checks)
FirstPriceTick == PriceTick /\ now = 0

InitWebhook ==
  /\ InitE2E
  /\ env = SmallEnv
  /\ \A i \in E2EIds : channel[i] = IF i = SetMin(E2EIds) + 1 THEN NoUrlMessage ELSE UrlMessage

NextWebhook ==
  \/ PollStart(1) \/ PollReadOk(1) \/ BfLoop(1) \/ BfAfter(1) \/ FwdFetchOk(1)
  \/ FwdLoop(1) \/ FwdAfter(1) \/ PollMaxIdOk(1)
  \/ ProcessStep(1)
  \/ PriceInit \/ FirstPriceTick \/ PriceFetch \/ PriceStore
  \/ WhStart \/ WhRead \/ WhCompare \/ WhPost \/ WhExec \/ WhCatch \/ WhFinally

SpecWebhook == InitWebhook /\ [][NextWebhook]_vars

\* --------------------------------------------------------------- SpecAi
\* src/utils/openai.js: processTelegramMessage calls, one after the other.

MODELS == env.MODELS
API_KEYS == env.API_KEYS
WORD_MIN == 200
WORD_MAX == 300
CHAR_MIN == 900
CHAR_MAX == 3500

\* headlineMatch[1] of a response: none (the line is missing), a plain
\* headline, a headline in markdown bold
NoHeadline == ""
HeadlineTexts == {NoHeadline, "Bitcoin Surges", "**Bitcoin Surges**"}

\* headlineMatch[1].replace(/^[\s*_\-]+|[\s*_\-]+$/g, '').substring(0, 100).trim()
CleanHeadline(h) == IF h = "**Bitcoin Surges**" THEN "Bitcoin Surges" ELSE h

\* new RegExp(`^.*${headlineMatch[1]}.*$`, 'mi') compiles: the headline is
\* taken as a pattern, and ".***Bitcoin Surges**.*" repeats a quantifier
\* (SyntaxError: nothing to repeat)
RegExpCompiles(h) == h # "**Bitcoin Surges**"

\* how an attempt can end: the request rejects, the MODEL_TIMEOUT timer wins
\* the race and aborts it, or a completion arrives (words and chars are the
\* counts of its sanitized body)
AttemptOutcomes ==
  {[kind |-> "error"], [kind |-> "timeout"]} \cup
  [kind : {"response"}, content : BOOLEAN, headline : HeadlineTexts,
   words : {WORD_MIN - 1, WORD_MIN, WORD_MAX + 1},
   chars : {CHAR_MIN - 1, CHAR_MAX, CHAR_MAX + 1}]

\* the response has content, a headline line, and a body within the word and
\* character bounds
PassesValidation(o) ==
  /\ o.kind = "response"
  /\ o.content
  /\ o.headline # NoHeadline
  /\ ~(o.words < WORD_MIN \/ o.words > WORD_MAX)
  /\ ~(o.chars < CHAR_MIN \/ o.chars > CHAR_MAX)

\* the attempt reaches `return { headline, content: sanitized }`
AttemptReturns(o) ==
  /\ o.kind = "response"
  /\ o.content
  /\ o.headline # NoHeadline
  /\ RegExpCompiles(o.headline)
  /\ ~(o.words < WORD_MIN \/ o.words > WORD_MAX)
  /\ ~(o.chars < CHAR_MIN \/ o.chars > CHAR_MAX)

\* processTelegramMessage(text, messageId, validatedUrl) is called
AiCall ==
  /\ aiPc \in {"idle", "returned"}
  /\ aiPc' = "attempt"
  /\ aiModel' = 1 /\ aiKey' = 1
  /\ aiTried' = <<>>
  /\ aiResult' = <<>>
  /\ UNCHANGED <<coreVars, priceVars, whVars, srvVars>>

\* one turn of the loops of tryModels: the request with the current model and
\* key, its validation, and the move to the next key or model; the result or
\* null goes back through processTelegramMessage
AiAttempt ==
  /\ aiPc = "attempt"
  /\ \E o \in AttemptOutcomes :
       /\ aiTried' = Append(aiTried, [model |-> MODELS[aiModel], key |-> API_KEYS[aiKey],
                                      ended |-> o.kind, valid |-> PassesValidation(o)])
       /\ IF AttemptReturns(o)
          THEN /\ aiResult' = <<[headline |-> CleanHeadline(o.headline), words |-> o.words,
                                 chars |-> o.chars]>>
               /\ aiPc' = "returned"
               /\ UNCHANGED <<aiModel, aiKey>>
          ELSE IF aiKey < Len(API_KEYS)
          THEN /\ aiKey' = aiKey + 1
               /\ UNCHANGED <<aiModel, aiPc, aiResult>>
          ELSE IF aiModel < Len(MODELS)
          THEN /\ aiModel' = aiModel + 1 /\ aiKey' = 1
               /\ UNCHANGED <<aiPc, aiResult>>
          ELSE /\ aiPc' = "returned"
               /\ aiResult' = <<>>
               /\ UNCHANGED <<aiModel, aiKey>>
  /\ UNCHANGED <<coreVars, priceVars, whVars, srvVars>>

NextAi == AiCall \/ AiAttempt

SpecAi == InitPrice /\ [][NextAi]_vars /\ WF_vars(NextAi)

\* ----------------------------------------------------------- SpecServer
\* src/server.js: startServer of a new process, against an empty cache and a
\* channel that receives messages.  startServer awaits initializeSystem; it
\* does not call startTelegramPolling, the only function that invokes
\* executePoll and registers it with setInterval.

\* the cache after flushDb
Flushed ==
  /\ articles' = <<>> /\ processed' = {} /\ failed' = {} /\ locks' = {}
  /\ lastMaxId' = NoKey /\ counter' = NoKey
  /\ latestPrices' = NoPrices
  /\ priceHistory' = [s \in DOMAIN priceHistory |-> {}]
  /\ lastPostedArticleMaxId' = NoKey /\ lastPostedPricesHash' = NoHash

\* what the steps of startServer before and after initializeSystem leave alone
SrvFrame ==
  UNCHANGED <<channel, cycleVars, callVars, obsVars, fwdFailed, crashes, calls, env, ticks,
              aiVars, pricePc, fetchedPrices, now, polls, whPc, isWebhookCheckRunning,
              whArticles, currentPricesHash, postedIds, failedPost>>

\* Phase 1: validateEnvironment(); a missing variable throws, the catch block
\* ends the process
SrvValidate ==
  /\ srvPc = "validate"
  /\ \E missing \in BOOLEAN : srvPc' = IF missing THEN "exited" ELSE "connect"
  /\ SrvFrame
  /\ UNCHANGED <<cacheVars, latestPrices, priceHistory, lastPostedArticleMaxId,
                 lastPostedPricesHash, pricePolling, webhookStarted, listening>>

\* Phase 2: await connectRedis(); on a failed connection connectRedis ends
\* the process
SrvConnect ==
  /\ srvPc = "connect"
  /\ \E err \in BOOLEAN : srvPc' = IF err THEN "exited" ELSE "flush"
  /\ SrvFrame
  /\ UNCHANGED <<cacheVars, latestPrices, priceHistory, lastPostedArticleMaxId,
                 lastPostedPricesHash, pricePolling, webhookStarted, listening>>

\* await handleRedisFlush(): flushDb if DO_FLUSH_REDIS is 'true'; a failed
\* flush is logged and startup goes on
SrvFlush ==
  /\ srvPc = "flush"
  /\ \E doFlush \in BOOLEAN, err \in BOOLEAN :
       IF doFlush /\ ~err
       THEN Flushed
       ELSE UNCHANGED <<cacheVars, latestPrices, priceHistory, lastPostedArticleMaxId,
                        lastPostedPricesHash>>
  /\ srvPc' = "prices"
  /\ SrvFrame
  /\ UNCHANGED <<pricePolling, webhookStarted, listening>>

\* 3a. startPricePolling()
SrvStartPrices ==
  /\ srvPc = "prices"
  /\ pricePolling' = TRUE
  /\ srvPc' = "init"
  /\ SrvFrame
  /\ UNCHANGED <<cacheVars, latestPrices, priceHistory, lastPostedArticleMaxId,
                 lastPostedPricesHash, webhookStarted, listening>>

\* 3b. await initializeTelegramSystem(): initializeSystem begins; if the
\* client cannot connect or is not authorized getAuthorizedClient ends the
\* process
SrvInit ==
  /\ srvPc = "init" /\ pc[1] = "down"
  /\ \E clientErr \in BOOLEAN :
       IF clientErr
       THEN srvPc' = "exited" /\ pc' = pc
       ELSE srvPc' = "initializing" /\ pc' = Set1(pc, 1, "initExists")
  /\ Disturb
  /\ UNCHANGED <<cacheVars, channel, env, ticks, isPollingActive, queue, redisMaxId, highest,
                 initArticleIds, telegramMaxId, crashes, calls, assigned, storedApi, callVars,
                 fwdFailed, aiVars, priceVars, whVars, pricePolling, webhookStarted, listening>>

\* SrvInitFailed that logs the error and goes on with the startup
SrvInitFailedGoesOn ==
  /\ srvPc = "initializing" /\ pc[1] = "down"
  /\ srvPc' = "webhook"
  /\ SrvFrame
  /\ UNCHANGED <<cacheVars, latestPrices, priceHistory, lastPostedArticleMaxId,
                 lastPostedPricesHash, pricePolling, webhookStarted, listening>>

\* initializeSystem rejected: catch (error) { ...; process.exit(1) }
SrvInitFailed ==
  /\ srvPc = "initializing" /\ pc[1] = "down"
  /\ srvPc' = "exited"
  /\ SrvFrame
  /\ UNCHANGED <<cacheVars, latestPrices, priceHistory, lastPostedArticleMaxId,
                 lastPostedPricesHash, pricePolling, webhookStarted, listening>>

\* initializeSystem resolved; 3c. startWebhookService(): the interval is
\* registered if WEBHOOK_TARGET_URL is set
SrvStartWebhook ==
  /\ srvPc = "initializing" /\ pc[1] = "idle"
  /\ webhookStarted' = (WEBHOOK_TARGET_URL # "")
  /\ srvPc' = "listen"
  /\ SrvFrame
  /\ UNCHANGED <<cacheVars, latestPrices, priceHistory, lastPostedArticleMaxId,
                 lastPostedPricesHash, pricePolling, listening>>

\* Phase 4: app.listen(PORT); startServer has completed
SrvListen ==
  /\ srvPc = "listen"
  /\ listening' = TRUE
  /\ srvPc' = "up"
  /\ SrvFrame
  /\ UNCHANGED <<cacheVars, latestPrices, priceHistory, lastPostedArticleMaxId,
                 lastPostedPricesHash, pricePolling, webhookStarted>>

\* a message is published while the process is alive
SrvPublish(c) == srvPc # "exited" /\ Publish(c)

InitServer ==
  /\ CacheEmpty
  /\ counter = NoKey
  /\ channel \in {<<>>, <<UrlMessage>>}
  /\ env = SmallEnv
  /\ pc = [p \in Procs |-> "down"]
  /\ LocalInit

NextServer ==
  \/ SrvValidate \/ SrvConnect \/ SrvFlush \/ SrvStartPrices \/ SrvInit
  \/ InitExists(1) \/ InitSet(1) \/ InitRead(1) \/ InitFetch(1)
  \/ InitLoop(1) \/ InitAfter(1) \/ InitFinal(1)
  \/ ProcessStep(1)
  \/ SrvInitFailed \/ SrvStartWebhook \/ SrvListen
  \/ \E c \in MsgContents : SrvPublish(c)

SpecServer == InitServer /\ [][NextServer]_vars /\ WF_vars(NextServer)

\* =============================================================== claims
InFlight(p) == ppc[p] # "none"
\* p has returned from processAndStoreMessage and its caller has not resumed
Returned(p) == ppc[p] = "none" /\ pc[p] \in {"call", "initCall", "bfCall", "fwdCall"}
\* p holds lock:<pmsg[p]> by its own SET NX and has not yet released it
WorkPcs == {"check", "sAddNoUrl", "summarize", "setFailed", "sAddFailed", "incr",
            "getArticles", "exec"}
Working(p) == passedLock[p] /\ ppc[p] \in WorkPcs

\* C1: the stored 'articles' collection never contains two Articles with the
\* same message id, also when the same id is stored more than once.
C1_NoDuplicateIds == Cardinality(Ids(articles)) = Len(articles)

\* an id that was stored twice (by two attempts) is in the collection
C1_Witness ==
  \E m \in 1..MultiMsgs : Cardinality(storedApi[m]) >= 2 /\ m \in Ids(articles)

\* C2: at most one processAndStoreMessage attempt per message id is between
\* acquiring lock:<id> and finishing its work on that id.
C2_OneAttemptPerId ==
  \A p \in Procs, q \in Procs :
    (p # q /\ Working(p) /\ Working(q)) => pmsg[p] # pmsg[q]

\* C3: of two processAndStoreMessage calls for the same id that are in flight
\* together, only one is past the lock-acquire step, and a call that did not
\* get past it returns true without having invoked the Summarizer.
C3_ExactlyOnePastLock ==
  /\ \A p \in Procs, q \in Procs :
       (p # q /\ InFlight(p) /\ InFlight(q) /\ pmsg[p] = pmsg[q])
         => ~(passedLock[p] /\ passedLock[q])
  /\ \A p \in Procs :
       (Returned(p) /\ ~passedLock[p]) => (pret[p] /\ ~summarized[p])

\* the INCRs made by calls for message m
IncrCount(m) == Cardinality({i \in 1..Len(assigned) : assigned[i].id = m})
LastAssigned == assigned[Len(assigned)]
HasNoUrl(m) == extractValidUrl(channel[m].text, channel[m].entities) = NoUrl
\* p takes a step of its processAndStoreMessage call (the death of the process
\* is not one)
CallStep(p) == InFlight(p) /\ ppc'[p] # ppc[p] /\ crashes' = crashes

\* C4: the apiIds assigned by processAndStoreMessage are strictly increasing
\* in the order they are assigned, hence never assigned twice, also when
\* initializeSystem runs again against a cache that holds the counter.
C4_ApiIdsIncreasing ==
  \A i \in 1..Len(assigned), j \in 1..Len(assigned) :
    i < j => assigned[i].apiId < assigned[j].apiId

\* after a restart found an Article in the cache, a further apiId is assigned
C4_Witness ==
  /\ crashes >= 1 /\ pc[1] = "initCall" /\ ppc[1] = "getArticles"
  /\ \E i \in 1..Len(articles) :
       articles[i].id \in initArticleIds[1] /\ articles[i].apiId < nextApiId[1]

C6_MarkNeverDecreases ==
  [][ /\ ReadMaxId(lastMaxId') >= ReadMaxId(lastMaxId)
      /\ lastMaxId' # lastMaxId =>
           /\ lastMaxId' > redisMaxId[1]
           /\ lastMaxId' >= highest[1]
           /\ lastMaxId' <= Len(channel) ]_vars

\* the restarted instance is ready and the mark has been raised
C6_Witness == crashes >= 1 /\ pc[1] = "idle" /\ ReadMaxId(lastMaxId) >= 2

\* C7: whenever a poll cycle or cold start persists mark m, every channel
\* message with id above the previous mark and at most m is in processed_ids.
C7_MarkCoversHandled ==
  [][ lastMaxId' # lastMaxId =>
        \A i \in ChannelIds :
          (ReadMaxId(lastMaxId) < i /\ i <= lastMaxId') => i \in processed' ]_vars

\* C8 (as claimed): a cycle that follows a cycle, the channel unchanged between
\* and during the two (and no fetch failing), leaves articles, processed_ids
\* and lastMaxId as the first cycle left them.
C8_SecondCycleNoOp ==
  [][ (pc[1] = "maxId" /\ pc'[1] = "idle" /\ prevCycle # <<>> /\ prevCycle' # <<>>)
        => prevCycle' = prevCycle ]_vars

\* a cycle result that leaves the backfill phase nothing to do: the collection
\* is full, or every older message of the channel is in processed_ids
Settled(r) ==
  \/ Len(r.articles) >= MAX_ARTICLES
  \/ \A i \in ChannelIds :
       i < OldestArticleId(r.articles, ReadMaxId(r.lastMaxId)) => i \in r.processed

\* C8 (amended): such a second cycle leaves lastMaxId as the first cycle left
\* it, and leaves articles and processed_ids as well when the first cycle left
\* the collection full or every message older than the oldest stored Article
\* in processed_ids.
C8_SecondCycleNoOpSettled ==
  [][ (pc[1] = "maxId" /\ pc'[1] = "idle" /\ prevCycle # <<>> /\ prevCycle' # <<>>)
        => /\ prevCycle'[1].lastMaxId = prevCycle[1].lastMaxId
           /\ Settled(prevCycle[1]) => prevCycle' = prevCycle ]_vars

\* a second cycle is about to end after a first one that stored an Article
C8_Witness ==
  /\ pc[1] = "maxId" /\ quiet /\ prevCycle # <<>>
  /\ Settled(prevCycle[1]) /\ Len(prevCycle[1].articles) >= 1

\* C9: a call for a message that is already in processed_ids changes neither
\* articles, processed_ids, the failure records nor the counter, does not
\* invoke the Summarizer, and returns true.
C9_ProcessedIsSkipped ==
  [][ \A p \in Procs :
        (CallStep(p) /\ alreadyProcessed[p]) =>
          /\ articles' = articles /\ processed' = processed
          /\ failed' = failed /\ counter' = counter
          /\ ~summarized'[p]
          /\ ppc'[p] = "none" => pret'[p] ]_vars

\* a call for a processed message got the lock and has returned
C9_Witness == Returned(1) /\ alreadyProcessed[1] /\ passedLock[1]

\* C10: a call that got the lock for a message without URL that was not yet
\* processed never invokes the Summarizer, creates no failure record, leaves
\* counter and articles alone, and returns true with the id in processed_ids.
C10_NoUrlIsSkipped ==
  [][ \A p \in Procs :
        (CallStep(p) /\ ~alreadyProcessed[p] /\ passedLock'[p] /\ HasNoUrl(pmsg[p])) =>
          /\ failed' = failed /\ counter' = counter /\ articles' = articles
          /\ ~summarized'[p]
          /\ ppc'[p] = "none" => (pret'[p] /\ pmsg[p] \in processed') ]_vars

\* such a call has returned
C10_Witness ==
  Returned(1) /\ passedLock[1] /\ ~alreadyProcessed[1] /\ HasNoUrl(pmsg[1])

\* the call of p is on the path the code takes for an invalid Summarizer result
OnInvalidPath(p) ==
  \/ ppc[p] \in {"setFailed", "sAddFailed"}
  \/ ppc[p] \in {"delEarly", "finally"} /\ ~pret[p]

\* C11: a call whose Summarizer result was invalid writes failed:<id>, adds the
\* id to processed_ids, leaves articles and the counter alone, and returns
\* false.
C11_InvalidSummaryFails ==
  [][ \A p \in Procs :
        (CallStep(p) /\ OnInvalidPath(p)) =>
          /\ articles' = articles /\ counter' = counter
          /\ ppc[p] = "setFailed" => failed' = failed \cup {pmsg[p]}
          /\ ppc[p] = "sAddFailed" => processed' = processed \cup {pmsg[p]}
          /\ ppc'[p] = "none" =>
                (~pret'[p] /\ summarized[p] /\ pmsg[p] \in processed') ]_vars

\* such a call has returned false and its Failure Record is in the cache
C11_Witness ==
  /\ Returned(1) /\ ~pret[1] /\ summarized[1]
  /\ pmsg[1] \in failed /\ pmsg[1] \in processed

\* C12: when a poll cycle reads the mark, every id that has a Failure Record
\* passes the filter of the failed-retry candidates of that cycle's forward
\* fetch (id > redisMaxId).
C12_FailedStaysCandidate ==
  [][ (pc[1] = "pollRead" /\ pc'[1] = "bfLoop") =>
        \A m \in failed : m \in failedIdsToRetry(redisMaxId'[1]) ]_vars

\* p's call has written the collection with its new Article in it
JustStored(p) ==
  ppc[p] = "finally" /\ nextApiId[p] # 0 /\ pmsg[p] \in Ids(articles)

\* C13: articles never holds more than MAX_ARTICLES entries, and storing an
\* Article with a new id into a collection of exactly MAX_ARTICLES entries
\* leaves MAX_ARTICLES entries: the old ones and the new one without the one
\* of lowest id.
C13_CapacityEviction ==
  [][ /\ Len(articles') <= MAX_ARTICLES
      /\ \A p \in Procs :
           ( /\ ppc[p] = "exec" /\ ppc'[p] = "finally"
             /\ Len(articles) = MAX_ARTICLES /\ pmsg[p] \notin Ids(articles) ) =>
             /\ Len(articles') = MAX_ARTICLES
             /\ Ids(articles') = (Ids(articles) \cup {pmsg[p]})
                                   \ {SetMin(Ids(articles) \cup {pmsg[p]})} ]_vars

\* a newer Article was stored into the full collection and an older one that
\* had been stored is gone
C13_Witness ==
  /\ JustStored(1) /\ Len(articles) = MAX_ARTICLES
  /\ \E m \in 1..MaxMsgId :
       storedApi[m] # {} /\ m \notin Ids(articles) /\ m < pmsg[1]

\* C14: articles is sorted by message id, strictly descending.
C14_SortedNewestFirst ==
  \A i \in 1..Len(articles), j \in 1..Len(articles) :
    i < j => articles[i].id > articles[j].id

\* an Article was stored behind a newer one
C14_Witness ==
  JustStored(1) /\ Len(articles) >= 2 /\ articles[1].id > pmsg[1]

\* C15: from the empty cache, with the channel holding 10 (no URL), 11 and 12
\* (valid URLs, both accepted by the Summarizer) and the default limits, a
\* cycle without fetch errors ends with exactly the Articles 12 and 11, 10 in
\* processed_ids without Failure Record, and lastMaxId = 12.
C15_EndToEnd ==
  [][ ( /\ pc[1] = "maxId" /\ pc'[1] = "idle"
        /\ lastMaxId = NoKey /\ prevCycle' # <<>>
        /\ env = DefaultEnv /\ ChannelIds = E2EIds
        /\ HasNoUrl(10) /\ ~HasNoUrl(11) /\ ~HasNoUrl(12)
        /\ 11 \notin failed /\ 12 \notin failed ) =>
        /\ Len(articles') = 2 /\ Ids(articles') = {11, 12}
        /\ 10 \in processed' /\ 10 \notin failed'
        /\ lastMaxId' = 12 ]_vars

\* that cycle has ended
C15_Witness ==
  /\ pc[1] = "idle" /\ prevCycle # <<>> /\ env = DefaultEnv
  /\ HasNoUrl(10) /\ ~HasNoUrl(11) /\ ~HasNoUrl(12)
  /\ Ids(articles) = {11, 12} /\ lastMaxId = 12 /\ Len(assigned) = 2

\* the hrefs of the valid http(s) targets of the text-link entities of msg
EntityUrls(msg) ==
  {Href(msg.entities[i].url) : i \in
     {j \in 1..Len(msg.entities) :
        /\ msg.entities[j].type = "textUrl"
        /\ UrlParses(msg.entities[j].url) /\ isValidHttpUrl(msg.entities[j].url)}}
\* the indices of the valid http(s) URLs written in the text of msg
PlainUrlAt(msg) ==
  {i \in 1..Len(msg.text) :
     RegexMatches(msg.text[i]) /\ UrlParses(msg.text[i]) /\ isValidHttpUrl(msg.text[i])}
\* p's call has just extracted the URL of its message
Extracted(p) == ppc[p] \in {"sAddNoUrl", "summarize"}

\* C16: the URL processAndStoreMessage extracts is the target of a text-link
\* entity whenever an entity has a valid http(s) target; it is the first valid
\* URL of the text only when no entity has one, and null when neither has.
C16_EntityPriority ==
  \A p \in Procs :
    Extracted(p) =>
      LET msg == channel[pmsg[p]]
      IN IF EntityUrls(msg) # {} THEN extractedUrl[p] \in EntityUrls(msg)
         ELSE IF PlainUrlAt(msg) # {}
         THEN extractedUrl[p] = Href(msg.text[SetMin(PlainUrlAt(msg))])
         ELSE extractedUrl[p] = NoUrl

\* C17: a call that got the lock never rejects, and when one of its
\* operations fails it writes failed:<id>, adds the id to processed_ids and
\* returns false.
C17_NeverPropagates ==
  [][ \A p \in Procs :
        (CallStep(p) /\ passedLock[p]) =>
          /\ ppc'[p] \notin {"finallyThrow", "threw"}
          /\ ppc[p] = "catchSet" => failed' = failed \cup {pmsg[p]}
          /\ ppc[p] = "catchSAdd" =>
                (processed' = processed \cup {pmsg[p]} /\ ~pret'[p]) ]_vars

\* C18: when a call that got the lock returns, by whichever path, there is no
\* key lock:<id> for its message id.  (A call whose del in the finally block
\* is itself rejected does not return; its key is left to the TTL.)
C18_LockReleased ==
  [][ \A p \in Procs :
        (CallStep(p) /\ passedLock[p] /\ ppc[p] # "threw" /\ ppc'[p] = "none") =>
          pmsg[p] \notin locks' ]_vars

\* a call that got the lock and caught an exception has returned false, and
\* the lock is gone
C18_Witness ==
  /\ Returned(1) /\ passedLock[1] /\ ~pret[1] /\ ~summarized[1]
  /\ pmsg[1] \in failed /\ pmsg[1] \notin locks

\* C19: an Article for m is in the collection only while m is in processed_ids
\* and no key failed:<m> exists.
C19_StoreAllOrNothing ==
  \A m \in Ids(articles) : m \in processed /\ m \notin failed

\* the positions of a running executePoll cycle
PollPcs == {"pollRead", "bfLoop", "bfCall", "fwdFetch", "fwdLoop", "fwdCall", "maxId"}

\* C20: isPollingActive is set exactly while a cycle runs, a cycle starts only
\* when it is not set, and an executePoll invocation that finds it set changes
\* neither the cache nor the flag nor the running cycle and fetches nothing.
C20_NoOverlap ==
  [][ /\ isPollingActive'[1] <=> pc'[1] \in PollPcs
      /\ (pc[1] \notin PollPcs /\ pc'[1] \in PollPcs) => ~isPollingActive[1]
      /\ ticks' # ticks =>
           /\ isPollingActive[1] /\ isPollingActive'[1]
           /\ UNCHANGED <<cacheVars, channel, cycleVars, callVars>> ]_vars

\* an invocation was skipped while the running cycle was inside a
\* processAndStoreMessage call
C20_Witness == ticks >= 1 /\ pc[1] = "fwdCall" /\ ppc[1] = "summarize"

\* C21: a cycle that has set isPollingActive eventually leaves the instance
\* idle with isPollingActive cleared and the process alive, whatever failed
\* in the cycle.
C21_CycleEndsIdle == isPollingActive[1] ~> (pc[1] = "idle" /\ ~isPollingActive[1])

\* C22: the counter steps of initializeSystem write the counter only when the
\* key is missing, and then to ARTICLE_API_ID_START; a counter that exists
\* keeps its value, so after these steps the counter is at least every apiId
\* assigned so far and the next INCR yields a greater one.
C22_CounterKeptOnRestart ==
  [][(pc[1] \in {"initExists", "initSet"} /\ pc'[1] # pc[1] /\ crashes' = crashes)
       => /\ counter # NoKey => counter' = counter
          /\ (counter = NoKey /\ pc[1] = "initSet") => counter' = ARTICLE_API_ID_START
          /\ (counter = NoKey /\ pc[1] = "initExists") => counter' = NoKey /\ pc'[1] = "initSet"
          /\ pc'[1] = "initRead" =>
               /\ counter' >= ARTICLE_API_ID_START
               /\ \A i \in 1..Len(assigned) : assigned[i].apiId <= counter']_vars

\* a restarted instance is past the counter steps and the counter that earlier
\* runs had advanced is still there
C22_Witness ==
  crashes >= 1 /\ pc[1] = "initRead" /\ counter > ARTICLE_API_ID_START /\ Len(assigned) > 0

\* C23: a step of initializeSystem that fails is fatal: when the request for
\* the channel's latest id fails (the id read is not the channel's), the
\* instance goes down (initializeSystem rejects, the process exits) and does
\* not go on to populate the cache and become ready.
C23_InitFailureIsFatal ==
  [][(/\ pc[1] = "initRead" /\ pc'[1] # pc[1] /\ crashes' = crashes
      /\ telegramMaxId'[1] # SetMax(ChannelIds))
       => pc'[1] = "down"]_vars

\* C24: while the collection holds fewer than MAX_ARTICLES Articles, no step
\* removes a stored Article from it, also when the calls of two instances for
\* different ids interleave.
C24_OnlyTrimRemoves ==
  [][Len(articles) < MAX_ARTICLES => \A m \in Ids(articles) : m \in Ids(articles')]_vars

\* C25: the backfill phase hands a message to processAndStoreMessage only
\* while fewer than MAX_ARTICLES Articles are stored: it has no candidates
\* when the count read at the start of the cycle is MAX_ARTICLES, and no call
\* is made once the count has reached MAX_ARTICLES.
C25_BackfillBelowTarget ==
  [][/\ (pc[1] = "pollRead" /\ pc'[1] = "bfLoop" /\ Len(articles) >= MAX_ARTICLES)
          => queue'[1] = <<>>
     /\ (pc[1] = "bfLoop" /\ pc'[1] = "bfCall") => Len(articles) < MAX_ARTICLES]_vars

\* a backfill call has brought the count to MAX_ARTICLES while candidates are
\* left
C25_Witness ==
  /\ pc[1] = "bfCall" /\ ppc[1] = "finally"
  /\ Len(articles) = MAX_ARTICLES /\ Len(queue[1]) > 1

\* C26: the candidates of the backfill phase are below the oldest stored
\* Article id, or, when nothing is stored, at most the mark; there are none
\* when the oldest stored id is 1 or less; and the backfill loop hands over
\* nothing but the candidates, one after the other.
C26_BackfillOlderOnly ==
  [][/\ (pc[1] = "pollRead" /\ pc'[1] = "bfLoop") =>
          \A k \in 1..Len(queue'[1]) :
             IF articles # <<>>
             THEN queue'[1][k] < SetMin(Ids(articles)) /\ SetMin(Ids(articles)) > 1
             ELSE queue'[1][k] <= ReadMaxId(lastMaxId)
     /\ (pc[1] = "bfLoop" /\ pc'[1] = "bfCall") =>
          pmsg'[1] = Head(queue[1]) /\ queue'[1] = queue[1]
     /\ (pc[1] \in {"bfLoop", "bfCall"} /\ pc'[1] \in {"bfLoop", "bfCall"}) =>
          \/ queue'[1] = queue[1]
          \/ queue[1] # <<>> /\ queue'[1] = Tail(queue[1])]_vars

\* a message below the oldest stored Article is being processed by the
\* backfill phase
C26_Witness ==
  /\ pc[1] = "bfCall" /\ ppc[1] = "lock" /\ articles # <<>>
  /\ pmsg[1] < SetMin(Ids(articles))

IsAscending(q) == \A i \in 1..Len(q), j \in 1..Len(q) : i < j => q[i] < q[j]
IsDescending(q) == \A i \in 1..Len(q), j \in 1..Len(q) : i < j => q[i] > q[j]
LoopPhases == {{"bfLoop", "bfCall"}, {"fwdLoop", "fwdCall"}}

\* C27: within a cycle the backfill candidates are handed to
\* processAndStoreMessage in strictly ascending id order and the forward
\* candidates in strictly descending id order (each loop takes the head of its
\* ordered list and then drops it), and no backfill step follows a step of
\* the forward phase.
C27_PhaseOrder ==
  [][/\ pc'[1] \in {"bfLoop", "bfCall"} => IsAscending(queue'[1])
     /\ pc'[1] \in {"fwdLoop", "fwdCall"} => IsDescending(queue'[1])
     /\ (pc[1] \in {"bfLoop", "fwdLoop"} /\ pc'[1] \in {"bfCall", "fwdCall"}) =>
          pmsg'[1] = Head(queue[1]) /\ queue'[1] = queue[1]
     /\ (\E ph \in LoopPhases : pc[1] \in ph /\ pc'[1] \in ph) =>
          \/ queue'[1] = queue[1]
          \/ queue[1] # <<>> /\ queue'[1] = Tail(queue[1])
     /\ pc[1] \in {"fwdFetch", "fwdLoop", "fwdCall", "maxId"} =>
          pc'[1] \notin {"bfLoop", "bfCall"}]_vars

\* the backfill phase is at its second candidate, the first, older one is
\* stored, and a further candidate is left
C27_Witness ==
  /\ pc[1] = "bfCall" /\ Len(queue[1]) >= 2 /\ pmsg[1] = Head(queue[1])
  /\ \E i \in 1..Len(articles) : articles[i].id < pmsg[1]

\* C28: every message the forward phase hands to processAndStoreMessage has
\* an id above the mark read at the start of the cycle, it is the head of the
\* candidate list, and the candidate list of the forward phase holds each id
\* at most once.
C28_ForwardAboveMarkOnce ==
  [][/\ pc'[1] \in {"fwdLoop", "fwdCall"} =>
          Cardinality({queue'[1][k] : k \in 1..Len(queue'[1])}) = Len(queue'[1])
     /\ (pc[1] = "fwdLoop" /\ pc'[1] = "fwdCall") =>
          /\ pmsg'[1] = Head(queue[1])
          /\ pmsg'[1] > redisMaxId[1]
          /\ redisMaxId'[1] = redisMaxId[1]]_vars

\* the forward phase has handed over a message above the mark, and a further
\* candidate is one that was fetched both as a latest message and as a failed
\* one
C28_Witness ==
  /\ pc[1] = "fwdCall" /\ pmsg[1] > redisMaxId[1]
  /\ \E k \in 2..Len(queue[1]) :
       /\ queue[1][k] \in failed /\ queue[1][k] > redisMaxId[1]
       /\ queue[1][k] \in LatestIds(MESSAGE_FETCH_LIMIT)

\* C29: with fewer than MAX_ARTICLES Articles stored and an older message
\* with a valid URL in the channel, cycles without errors eventually bring
\* the count to MAX_ARTICLES or handle every message of the channel.
C29_BackfillProgress ==
  <>(Len(articles) >= MAX_ARTICLES \/ \A m \in ChannelIds : m \in processed)

\* C30: when the instance has died holding lock:<m>, the key runs out and
\* message m is eventually processed: its id ends up in processed_ids.
C30_CrashedLockRecovers ==
  \A m \in 1..MaxMsgId :
    (pc[1] = "down" /\ crashes >= 1 /\ m \in locks) ~> (m \in processed)

\* C31: a channel error while the backfill candidates, the forward candidates
\* or the failed ids are fetched does not end the cycle: the failing fetch
\* gives no candidates (a failing fetch of the failed ids leaves the latest
\* messages above the mark), the cycle goes on with its next phase, the fetch
\* steps leave the cache alone, and `articles` and processed_ids change only
\* in a step of a processAndStoreMessage call, for its message id, a new
\* Article never without its id in processed_ids.
C31_FetchErrorKeepsCycle ==
  [][/\ (pc[1] = "pollRead" /\ pc'[1] # pc[1]) =>
          /\ pc'[1] = "bfLoop" /\ isPollingActive'[1]
          /\ UNCHANGED cacheVars
          /\ (quiet /\ ~quiet') => queue'[1] = <<>>
     /\ (pc[1] = "fwdFetch" /\ pc'[1] # pc[1]) =>
          /\ pc'[1] = "fwdLoop" /\ isPollingActive'[1]
          /\ UNCHANGED cacheVars
          /\ (quiet /\ ~quiet') =>
               queue'[1] \in {<<>>, SortDesc({i \in LatestIds(MESSAGE_FETCH_LIMIT) :
                                                i > redisMaxId[1]})}
     /\ (articles' # articles \/ processed' # processed) =>
          /\ ppc[1] \in {"sAddNoUrl", "sAddFailed", "exec"} /\ ppc'[1] # ppc[1]
          /\ processed' = processed \cup {pmsg[1]}
          /\ Ids(articles') \subseteq Ids(articles) \cup {pmsg[1]}
          /\ articles' # articles => ppc[1] = "exec"]_vars

\* the fetch of the backfill candidates has failed in a cycle that had
\* candidates to fetch, and the cycle is in its backfill loop
C31_Witness ==
  /\ pc[1] = "bfLoop" /\ ~quiet /\ queue[1] = <<>>
  /\ BackfillQueue(articles, redisMaxId[1], FALSE) # <<>>

\* C32: a message with an unexpired Failure Record is, in a later cycle, handed
\* to processAndStoreMessage again and reaches the Summarizer again.
C32_FailedIsRetried ==
  \A m \in E2EIds :
    (m \in failed /\ pc[1] = "idle") ~> (pmsg[1] = m /\ ppc[1] = "summarize")

\* C39: a call that did not acquire lock:<id> because the key was held leaves
\* the key alone: no step of that call removes it.
C39_LoserKeepsLock ==
  [][\A p \in Procs :
       (InFlight(p) /\ ~passedLock[p] /\ ppc'[p] # ppc[p] /\ pmsg[p] \in locks)
         => pmsg[p] \in locks']_vars


\* C40: a cycle whose forward fetch failed does not move lastMaxId past a
\* channel message above the mark that it never fetched.
C40_FailedFetchKeepsMark ==
  [][(pc[1] = "maxId" /\ pc'[1] = "idle" /\ fwdFailed[1])
       => \A m \in ChannelIds :
            (m > redisMaxId[1] /\ m \notin processed) => ReadMaxId(lastMaxId') < m]_vars


\* C38: after k price polls whose store transaction was executed, the history
\* of each symbol holds min(k, PRICE_HISTORY_LIMIT) points, equal prices
\* included.
C38_OnePointPerPoll ==
  \A s \in Symbols :
    Cardinality(priceHistory[s]) =
      (IF polls < PRICE_HISTORY_LIMIT THEN polls ELSE PRICE_HISTORY_LIMIT)


\* the indicators of the running webhook check
WhCurrent == [maxId |-> currentArticleMaxId, hash |-> currentPricesHash]

\* C34: the last-posted indicators are written only by the transaction that
\* follows a POST answered with 2xx, both with the values of that check; a
\* POST that ended otherwise ends the check with the indicators as they
\* were, and the next check that finds the same indicators posts again.
C34_IndicatorsOnlyAfter2xx ==
  [][/\ (<<lastPostedArticleMaxId, lastPostedPricesHash>>'
           # <<lastPostedArticleMaxId, lastPostedPricesHash>>)
          => /\ whPc = "exec"
             /\ lastPostedArticleMaxId' = currentArticleMaxId
             /\ lastPostedPricesHash' = currentPricesHash
     /\ (whPc' = "exec" /\ whPc # "exec") => (whPc = "post" /\ failedPost' = <<>>)
     /\ (whPc = "post" /\ whPc' # "post" /\ failedPost' # <<>>)
          => /\ whPc' = "idle"
             /\ UNCHANGED <<lastPostedArticleMaxId, lastPostedPricesHash>>
     /\ (whPc = "compare" /\ whPc' \in {"post", "idle"}
           /\ failedPost = <<WhCurrent>>)
          => whPc' = "post"]_vars

\* a check posts the indicators again that the last POST, which failed, carried
C34_Witness ==
  /\ whPc = "post" /\ failedPost = <<WhCurrent>>
  /\ lastPostedArticleMaxId # NoKey /\ currentArticleMaxId > lastPostedArticleMaxId

\* C35: a check that finds an Article in the collection that was not in the
\* last successfully posted one detects a change and posts.
C35_NewArticleIsPosted ==
  [][(whPc = "compare" /\ whPc' \in {"post", "idle"}
        /\ {whArticles[i] : i \in 1..Len(whArticles)} \ postedIds # {})
       => whPc' = "post"]_vars


\* the i-th attempt of a call in the configured order: every key for a model,
\* then the next model
NthAttempt(i) ==
  [model |-> MODELS[((i - 1) \div Len(API_KEYS)) + 1],
   key |-> API_KEYS[((i - 1) % Len(API_KEYS)) + 1]]

\* C33: a processTelegramMessage call ends; its attempts are at most
\* |MODELS| x |API_KEYS|, in the configured order; it returns the result of
\* the first attempt that passes validation, and null when none does.
C33_SummarizerBounded ==
  /\ [](/\ Len(aiTried) <= Len(MODELS) * Len(API_KEYS)
        /\ \A i \in 1..Len(aiTried) :
             /\ aiTried[i].model = NthAttempt(i).model
             /\ aiTried[i].key = NthAttempt(i).key
             /\ aiTried[i].ended \in {"response", "error", "timeout"}
             /\ aiTried[i].valid => (i = Len(aiTried) /\ aiPc = "returned" /\ aiResult # <<>>)
        /\ (aiPc = "returned" /\ aiResult = <<>>)
             => Len(aiTried) = Len(MODELS) * Len(API_KEYS))
  /\ (aiPc = "attempt" ~> aiPc = "returned")


\* C36: the webhook service and the HTTP listener are started only after
\* initializeSystem has resolved; a startup that failed ends the process, which
\* never listens.
C36_ListenOnlyAfterInit ==
  [][/\ (listening' \/ webhookStarted' \/ srvPc' \in {"listen", "up"}) => pc'[1] = "idle"
     /\ (srvPc = "initializing" /\ pc[1] = "down" /\ srvPc' # srvPc) => srvPc' = "exited"
     /\ srvPc = "exited" => (srvPc' = "exited" /\ ~listening /\ ~listening' /\ ~webhookStarted')
    ]_vars

\* the server listens after an initialization that stored an Article
C36_Witness ==
  listening /\ webhookStarted /\ srvPc = "up" /\ articles # <<>>

\* C37: once startServer has completed, a message that is then published to
\* the channel is eventually processed.
C37_PollingAfterStartup ==
  \A m \in 1..MaxMsgId :
    [](srvPc = "up" /\ m \notin ChannelIds => [](m \in ChannelIds => <>(m \in processed)))

====
